---------------------------- MODULE Spec2Model ----------------------------
(***************************************************************************)
(* Transfer orchestration of the Wormhole toolkit of move-agent-kit:       *)
(*   transferUsdcWithCctp     src/tools/wormhole/cctp.ts                    *)
(*   createAptosWrappedToken  src/tools/wormhole/wrappedToken.ts            *)
(*   tokenTransfer            src/tools/wormhole/tokenTransfer.ts           *)
(*   getSignerForChain        src/tools/wormhole/helper.ts                  *)
(* Every await of a function is one step of its run.  Remote calls (chain  *)
(* clients, the attestation service) answer nondeterministically: they     *)
(* return, or throw an error with some message.  Text (error messages,     *)
(* decimal amounts, secret names) is a sequence of characters, so that     *)
(* String.includes and decimal parsing are computed, not assumed.          *)
(***************************************************************************)
EXTENDS Integers, Sequences, FiniteSets, TLC

-----------------------------------------------------------------------------
(* Bounds of the exploration *)

\* largest maxRetries argument a caller passes to transferUsdcWithCctp
MaxRetriesArg == 2

-----------------------------------------------------------------------------
(* Program constants *)

\* Math.min(..., 60000): cap of the backoff delay, in ms
BackoffCap == 60000
\* const amt = 1_000_000n
HardCodedAmt == 1000000
\* "Parse USDC amount with 6 decimal precision"
UsdcDecimals == 6

-----------------------------------------------------------------------------
(* Text *)

\* "Overloaded"
SigOverloadedCap ==
  <<"O","v","e","r","l","o","a","d","e","d">>
\* "overloaded"
SigOverloaded ==
  <<"o","v","e","r","l","o","a","d","e","d">>
\* "timeout"
SigTimeout ==
  <<"t","i","m","e","o","u","t">>
\* "rate limit"
SigRateLimit ==
  <<"r","a","t","e"," ","l","i","m","i","t">>
\* "429"
Sig429 ==
  <<"4","2","9">>
\* "connection"
SigConnection ==
  <<"c","o","n","n","e","c","t","i","o","n">>
\* "Service Overloaded"
MsgServiceOverloaded ==
  <<"S","e","r","v","i","c","e"," ","O","v","e","r","l","o","a","d","e","d">>
\* "execution reverted"
MsgReverted ==
  <<"e","x","e","c","u","t","i","o","n"," ","r","e","v","e","r","t","e","d">>
\* "No attestation available after timeout"
MsgAttestTimeout ==
  <<"N","o"," ","a","t","t","e","s","t","a","t","i","o","n"," ","a","v","a","i","l","a","b","l","e"," ","a","f","t","e","r"," ","t","i","m","e","o","u","t">>
\* "Timed out waiting for attestation"
MsgAttestTimedOut ==
  <<"T","i","m","e","d"," ","o","u","t"," ","w","a","i","t","i","n","g"," ","f","o","r"," ","a","t","t","e","s","t","a","t","i","o","n">>
\* "Required environment variable missing: "
MsgMissingEnvPrefix ==
  <<"R","e","q","u","i","r","e","d"," ","e","n","v","i","r","o","n","m","e","n","t"," ","v","a","r","i","a","b","l","e"," ","m","i","s","s","i","n","g",":"," ">>
\* "Unsupported blockchain platform: "
MsgUnsupportedPlatformPrefix ==
  <<"U","n","s","u","p","p","o","r","t","e","d"," ","b","l","o","c","k","c","h","a","i","n"," ","p","l","a","t","f","o","r","m",":"," ">>
\* "Max retries reached"
MsgMaxRetriesReached ==
  <<"M","a","x"," ","r","e","t","r","i","e","s"," ","r","e","a","c","h","e","d">>
\* "No Wormhole messages found in attestation transaction"
MsgNoMessages ==
  <<"N","o"," ","W","o","r","m","h","o","l","e"," ","m","e","s","s","a","g","e","s"," ","f","o","u","n","d"," ","i","n"," ","a","t","t","e","s","t","a","t","i","o","n"," ","t","r","a","n","s","a","c","t","i","o","n">>
\* "VAA not available after timeout period. Consider extending the timeout."
MsgVaaNotAvailable ==
  <<"V","A","A"," ","n","o","t"," ","a","v","a","i","l","a","b","l","e"," ","a","f","t","e","r"," ","t","i","m","e","o","u","t"," ","p","e","r","i","o","d","."," ","C","o","n","s","i","d","e","r"," ","e","x","t","e","n","d","i","n","g"," ","t","h","e"," ","t","i","m","e","o","u","t",".">>
\* "Wrapped asset not available after maximum polling attempts"
MsgWrappedNotAvailable ==
  <<"W","r","a","p","p","e","d"," ","a","s","s","e","t"," ","n","o","t"," ","a","v","a","i","l","a","b","l","e"," ","a","f","t","e","r"," ","m","a","x","i","m","u","m"," ","p","o","l","l","i","n","g"," ","a","t","t","e","m","p","t","s">>
\* "Failed to create wrapped token: "
MsgFailedToCreateWrappedPrefix ==
  <<"F","a","i","l","e","d"," ","t","o"," ","c","r","e","a","t","e"," ","w","r","a","p","p","e","d"," ","t","o","k","e","n",":"," ">>
\* "Transfer amount too small to cover associated fees and requested native gas"
MsgAmountTooSmall ==
  <<"T","r","a","n","s","f","e","r"," ","a","m","o","u","n","t"," ","t","o","o"," ","s","m","a","l","l"," ","t","o"," ","c","o","v","e","r"," ","a","s","s","o","c","i","a","t","e","d"," ","f","e","e","s"," ","a","n","d"," ","r","e","q","u","e","s","t","e","d"," ","n","a","t","i","v","e"," ","g","a","s">>
\* "Attestation not available after maximum polling attempts"
MsgAttestationNotAvailable ==
  <<"A","t","t","e","s","t","a","t","i","o","n"," ","n","o","t"," ","a","v","a","i","l","a","b","l","e"," ","a","f","t","e","r"," ","m","a","x","i","m","u","m"," ","p","o","l","l","i","n","g"," ","a","t","t","e","m","p","t","s">>
\* "SOLANA_PRIVATE_KEY"
SOLANA_PRIVATE_KEY ==
  <<"S","O","L","A","N","A","_","P","R","I","V","A","T","E","_","K","E","Y">>
\* "ETH_PRIVATE_KEY"
ETH_PRIVATE_KEY ==
  <<"E","T","H","_","P","R","I","V","A","T","E","_","K","E","Y">>
\* "SUI_MNEMONIC"
SUI_MNEMONIC ==
  <<"S","U","I","_","M","N","E","M","O","N","I","C">>
\* "APTOS_PRIVATE_KEY"
APTOS_PRIVATE_KEY ==
  <<"A","P","T","O","S","_","P","R","I","V","A","T","E","_","K","E","Y">>

Min(a, b) == IF a <= b THEN a ELSE b

RECURSIVE Pow(_, _)
\* Math.pow(b, e) for integers e >= 0
Pow(b, e) == IF e <= 0 THEN 1 ELSE b * Pow(b, e - 1)

\* String.prototype.includes: sub occurs in s as a contiguous substring
Includes(s, sub) ==
  \E i \in 1..(Len(s) - Len(sub) + 1) : SubSeq(s, i, i + Len(sub) - 1) = sub

\* mutant: "timeout" is not among the signatures
IsOverloadedError_NoTimeout(errorMessage) ==
  \/ Includes(errorMessage, SigOverloadedCap)
  \/ Includes(errorMessage, SigOverloaded)
  \/ Includes(errorMessage, SigRateLimit)
  \/ Includes(errorMessage, Sig429)
  \/ Includes(errorMessage, SigConnection)

\* mutant: "connection" is not among the signatures
IsOverloadedError_NoConnection(errorMessage) ==
  \/ Includes(errorMessage, SigOverloadedCap)
  \/ Includes(errorMessage, SigOverloaded)
  \/ Includes(errorMessage, SigTimeout)
  \/ Includes(errorMessage, SigRateLimit)
  \/ Includes(errorMessage, Sig429)

\* the catch block's classification of an error message (transient or not)
IsOverloadedError(errorMessage) ==
  \/ Includes(errorMessage, SigOverloadedCap)
  \/ Includes(errorMessage, SigOverloaded)
  \/ Includes(errorMessage, SigTimeout)
  \/ Includes(errorMessage, SigRateLimit)
  \/ Includes(errorMessage, Sig429)
  \/ Includes(errorMessage, SigConnection)

-----------------------------------------------------------------------------
(* Decimal amounts: amount.units(amount.parse(text, decimals)) *)

DigitValue(c) ==
  CASE c = "0" -> 0 [] c = "1" -> 1 [] c = "2" -> 2 [] c = "3" -> 3
    [] c = "4" -> 4 [] c = "5" -> 5 [] c = "6" -> 6 [] c = "7" -> 7
    [] c = "8" -> 8 [] c = "9" -> 9

RECURSIVE DigitsValue(_)
\* the number a string of decimal digits denotes ("" is 0)
DigitsValue(ds) ==
  IF ds = <<>> THEN 0
  ELSE 10 * DigitsValue(SubSeq(ds, 1, Len(ds) - 1)) + DigitValue(ds[Len(ds)])

\* position of the decimal point of text, or Len(text) + 1 when it has none
PointAt(text) ==
  IF \E i \in 1..Len(text) : text[i] = "."
  THEN CHOOSE i \in 1..Len(text) : text[i] = "." /\ \A j \in 1..(i - 1) : text[j] # "."
  ELSE Len(text) + 1

\* base units of a decimal text at the given precision; the fraction has at
\* most `decimals` digits (a longer one is rejected by amount.parse)
ParseUnits(text, decimals) ==
  LET p == PointAt(text)
      whole == SubSeq(text, 1, p - 1)
      frac == SubSeq(text, p + 1, Len(text))
  IN DigitsValue(whole) * Pow(10, decimals)
       + DigitsValue(frac) * Pow(10, decimals - Len(frac))

-----------------------------------------------------------------------------
(* Signer resolution: getSignerForChain of helper.ts *)

\* the chains a request names, and the source chain
SourceChainId == "Aptos"
TargetChains == {"Ethereum", "Solana", "Osmosis"}

\* chain.platform.utils()._platform
PlatformOf(chain) ==
  CASE chain = "Aptos" -> "Aptos"
    [] chain = "Ethereum" -> "Evm"
    [] chain = "Solana" -> "Solana"
    [] chain = "Sui" -> "Sui"
    [] OTHER -> "Cosmwasm"

\* process.env[name]: undefined, the empty string, or a key
Undefined == <<"undefined">>
EmptyText == <<>>
SecretValue == <<"0","x","1">>
Secrets == {SOLANA_PRIVATE_KEY, ETH_PRIVATE_KEY, SUI_MNEMONIC, APTOS_PRIVATE_KEY}

\* process.env with exactly the given secrets set
ProcessEnv(set) ==
  [name \in Secrets |-> IF name \in set THEN SecretValue ELSE Undefined]

\* the configurations of process.env the three functions are explored with
Environments ==
  {ProcessEnv(Secrets), ProcessEnv(Secrets \ {ETH_PRIVATE_KEY}),
   ProcessEnv(Secrets \ {APTOS_PRIVATE_KEY})}

\* mutant: only an unset variable is rejected (value === undefined)
GetEnvironmentVar_UnsetOnly(variableName, environment) ==
  IF environment[variableName] # Undefined
  THEN [ok |-> TRUE, read |-> variableName]
  ELSE [ok |-> FALSE, read |-> variableName,
        errorMessage |-> MsgMissingEnvPrefix \o variableName]

\* getEnvironmentVar: the value, or the error it throws when unset or empty
\* (if (!value))
GetEnvironmentVar(variableName, environment) ==
  IF environment[variableName] # Undefined /\ environment[variableName] # EmptyText
  THEN [ok |-> TRUE, read |-> variableName]
  ELSE [ok |-> FALSE, read |-> variableName,
        errorMessage |-> MsgMissingEnvPrefix \o variableName]

\* getSignerForChain: the switch on the platform; gasLimit is 0 when omitted
GetSignerForChain(chain, gasLimit, environment) ==
  LET platform == PlatformOf(chain)
      Signer(v, opts) ==
        IF v.ok
        THEN [ok |-> TRUE, chain |-> chain, read |-> {v.read}, options |-> opts]
        ELSE [ok |-> FALSE, read |-> {v.read}, errorMessage |-> v.errorMessage]
  IN CASE platform = "Solana" ->
            Signer(GetEnvironmentVar(SOLANA_PRIVATE_KEY, environment), 0)
       [] platform = "Evm" ->
            Signer(GetEnvironmentVar(ETH_PRIVATE_KEY, environment),
                   IF gasLimit # 0 THEN gasLimit ELSE 0)
       [] platform = "Sui" ->
            Signer(GetEnvironmentVar(SUI_MNEMONIC, environment), 0)
       [] platform = "Aptos" ->
            Signer(GetEnvironmentVar(APTOS_PRIVATE_KEY, environment), 0)
       [] OTHER ->
            [ok |-> FALSE, read |-> {},
             errorMessage |-> MsgUnsupportedPlatformPrefix \o <<"C","o","s","m","w","a","s","m">>]

\* signerInfo before getSignerForChain was called
NotResolved == [ok |-> FALSE, read |-> {}, errorMessage |-> EmptyText]

-----------------------------------------------------------------------------
(* The remote world *)

\* messages of the errors a remote call (RPC, chain client) may throw
RemoteErrors == {MsgServiceOverloaded, MsgReverted}
\* messages of the error of an attestation wait that ran out of time
TimeoutErrors == {MsgAttestTimeout, MsgAttestTimedOut}

\* the runs of transferUsdcWithCctp
Runs == {1, 2}
None == <<>>

VARIABLES
  env,            \* process.env: the value of each secret
  cpc,            \* cpc[r]: where run r of transferUsdcWithCctp stands
  request,        \* request[r]: its AptosCctpTransferRequest
  maxRetries,     \* its argument maxRetries
  initialBackoff, \* its argument initialBackoff (ms)
  retryCount,     \* let retryCount
  backoffTime,    \* let backoffTime (ms)
  amt,            \* const amt of the current attempt (0: not yet computed)
  sourceTxIds,    \* const sourceTxIds of the current attempt
  attestationIds, \* const attestationIds of the current attempt
  destTxIds,      \* const destTxIds of the current attempt
  result,         \* the object the run returned
  srcSubmitted,   \* source chain: base-unit amounts of the transfers run r initiated
  dstCompleted,   \* destination chain: the transfers of run r that were completed
  attempts,       \* history: entries of the try block
  sleeps,         \* history: backoff waits
  attestTimeouts, \* history: attestation waits that timed out
  completeFailures, \* history: completion submissions that threw
  transientFailures, \* history: attempts that threw an error classified transient
  fatalFailures   \* history: attempts that threw any other error

cctpVars == <<cpc, request, maxRetries, initialBackoff, retryCount, backoffTime,
              amt, sourceTxIds, attestationIds, destTxIds, result,
              srcSubmitted, dstCompleted, attempts, sleeps, attestTimeouts,
              completeFailures, transientFailures, fatalFailures>>

VARIABLES
  wrapped,        \* destination chains: wrapped[<<network, chain, token>>], the
                  \* address of the wrapped token of an Aptos token, or NoAddr
  wpc,            \* wpc[p]: where the call of createAptosWrappedToken of p stands
  wreq,           \* its WrappedTokenRequest
  existingWrappedToken, \* const existingWrappedToken
  primaryTxId,    \* const primaryTxId (0: none yet)
  wrappedAsset,   \* let wrappedAsset
  attemptCount,   \* let attemptCount
  wres,           \* the WrappedTokenResponse returned
  attestTxs,      \* origin chain: attestation-creation transactions p submitted
  registerTxs,    \* destination chain: registrations (submitAttestation) p submitted
  secretsRead,    \* history: the secrets getSigner read for p
  signerCalls,    \* history: calls of getSigner made for p
  emptyLookups,   \* history: polling lookups of p that returned an empty value
  wrapWaited,     \* history: ms since the availability poll of p began
  priorSuccess    \* history: when p called, a call with its key had returned success

wrapVars == <<wrapped, wpc, wreq, existingWrappedToken, primaryTxId, wrappedAsset,
              attemptCount, wres, attestTxs, registerTxs, secretsRead, signerCalls,
              emptyLookups, wrapWaited, priorSuccess>>

VARIABLES
  tpc,            \* tpc[p]: where the run of tokenTransfer of p stands
  treq,           \* its AptosTokenTransferRequest
  tokenIdentifier, \* let tokenIdentifier: its address ("native" or a token)
  decimals,       \* const decimals (-1: not yet looked up)
  transferUnits,  \* the base-unit amount of const transfer (-1: not yet created)
  ttSourceTxIds,  \* const sourceTxIds
  attestation,    \* let attestation
  ttAttemptCount, \* let attemptCount
  tres,           \* the object the run returned
  ttSubmitted,    \* source chain: base-unit amounts of the transfers p initiated
  ttCompleted,    \* destination chain: the transfers of p that were completed
  ttEmptyFetches, \* history: fetchAttestation calls that returned an empty value
  ttWaited        \* history: ms since the attestation poll of p began

transferVars == <<tpc, treq, tokenIdentifier, decimals, transferUnits, ttSourceTxIds,
                  attestation, ttAttemptCount, tres, ttSubmitted, ttCompleted,
                  ttEmptyFetches, ttWaited>>

VARIABLES
  chainContexts   \* history: chainContexts[<<network, chain>>], the chain contexts
                  \* getChain created on the Wormhole instances of that network

VARIABLES
  schain,         \* getSignerForChain: the chain of its argument
  sgasLimit,      \* its argument gasLimit (0: omitted)
  signerInfo,     \* what the call returned or threw
  cMessage,       \* the catch block: error.message of the error caught
  cCount,         \* retryCount when it was caught
  cMax,           \* maxRetries
  cDecision       \* what the catch block did ("": nothing yet)

helperVars == <<schain, sgasLimit, signerInfo, cMessage, cCount, cMax, cDecision>>

VARIABLES
  bpc,              \* buyOpenRouterCredits: the position of its run
  breq,             \* its BuyOpenRouterCreditsRequest
  aptosUsdcBalance, \* const aptosUsdcBalance (-1: not yet read)
  cctpResult,       \* let cctpResult
  usdcBalance,      \* let usdcBalance, in base units (-1: not yet read)
  approvalReceipt,  \* approvalReceipt.status ("": no receipt)
  receipt,          \* receipt.status ("": no receipt)
  bout,             \* what the run returned or threw
  baseReads,        \* history: the balances the reads on Base answered
  intentRequests,   \* history: POSTs sent to the OpenRouter credits endpoint
  approvalsSent,    \* history: approval transactions sent on Base
  transfersSent     \* history: payment transactions sent on Base

creditVars == <<bpc, breq, aptosUsdcBalance, cctpResult, usdcBalance,
                approvalReceipt, receipt, bout, baseReads, intentRequests,
                approvalsSent, transfersSent>>

\* what a step of one function leaves alone of the others
outsideCctp == <<env, helperVars, chainContexts, wrapVars, transferVars, creditVars>>
outsideWrap == <<env, helperVars, chainContexts, cctpVars, transferVars, creditVars>>
outsideTransfer == <<env, helperVars, chainContexts, cctpVars, creditVars>>

\* const whInstance = await wormhole(network, ...) and whInstance.getChain(chain)
\* for each of the chains: a new Wormhole instance and new chain contexts
GetChains(network, chains) ==
  [k \in DOMAIN chainContexts |->
     IF k[1] = network /\ k[2] \in chains THEN chainContexts[k] + 1
     ELSE chainContexts[k]]

\* the decimal texts a caller asks to transfer: "1", "10.00", "0.5", "2.25"
TransferAmounts ==
  {<<"1">>, <<"1","0",".","0","0">>, <<"0",".","5">>, <<"2",".","2","5">>}
\* networkType of a request; "" stands for an omitted one
NetworkTypes == {"", "Mainnet", "Testnet"}
InitialBackoffs == {2000, 20000}
\* Math.random() * 0.3 + 0.85, in hundredths
Jitters == {85, 100, 115}

CctpRequests ==
  [targetChain : TargetChains, transferAmount : TransferAmounts,
   networkType : NetworkTypes]

\* const amt = 1_000_000n
Amt(transferAmount) == HardCodedAmt

\* mutant: the attempt bound tested with > instead of >=
StopRetrying_OffByOne(count, max, errorMessage) ==
  count > max \/ ~IsOverloadedError(errorMessage)

\* mutant: the two stop conditions joined by && instead of ||
StopRetrying_Both(count, max, errorMessage) ==
  count >= max /\ ~IsOverloadedError(errorMessage)

\* mutant: the classification of the error is not tested
StopRetrying_CountOnly(count, max, errorMessage) == count >= max

\* the loop's exit test inside the catch block
StopRetrying(count, max, errorMessage) ==
  count >= max \/ ~IsOverloadedError(errorMessage)

\* mutant: the delay does not grow with the retry number
Backoff_NoGrowth(initial, count, jitter) ==
  Min((initial * jitter) \div 100, BackoffCap)

\* mutant: the delay is not capped
Backoff_Uncapped(initial, count, jitter) ==
  (initial * Pow(2, count) * jitter) \div 100

\* Math.min(initialBackoff * Math.pow(2, retryCount) * jitter, 60000); the
\* initial delays explored are multiples of 100 ms, so the division is exact
Backoff(initial, count, jitter) ==
  Min((initial * Pow(2, count) * jitter) \div 100, BackoffCap)

\* mutant: the success reports no retries
SuccessResult_NoRetries(r) ==
  [isSuccess |-> TRUE, status |-> "Completed", sourceChain |-> SourceChainId,
   destinationChain |-> request[r].targetChain,
   amount |-> request[r].transferAmount,
   sourceTransactions |-> sourceTxIds[r],
   attestationIds |-> attestationIds[r],
   destinationTransactions |-> <<dstCompleted[r] + 1>>,
   automatic |-> FALSE, retryCount |-> 0]

\* the return of a completed transfer
SuccessResult(r) ==
  [isSuccess |-> TRUE, status |-> "Completed", sourceChain |-> SourceChainId,
   destinationChain |-> request[r].targetChain,
   amount |-> request[r].transferAmount,
   sourceTransactions |-> sourceTxIds[r],
   attestationIds |-> attestationIds[r],
   destinationTransactions |-> <<dstCompleted[r] + 1>>,
   automatic |-> FALSE, retryCount |-> retryCount[r]]

\* mutant: the failure is returned without the message of the error
FailureResult_NoMessage(errorMessage, count) ==
  [isSuccess |-> FALSE, errorMessage |-> None, retryAttempts |-> count]

\* the return of the catch block, and the return after the loop
FailureResult(errorMessage, count) ==
  [isSuccess |-> FALSE, errorMessage |-> errorMessage, retryAttempts |-> count]

\* mutant: retryCount is one counter of the module, shared by the runs
Catch_SharedRetryCount(r, errorMessage) ==
  /\ IF IsOverloadedError(errorMessage)
     THEN /\ transientFailures' = [transientFailures EXCEPT ![r] = @ + 1]
          /\ UNCHANGED fatalFailures
     ELSE /\ fatalFailures' = [fatalFailures EXCEPT ![r] = @ + 1]
          /\ UNCHANGED transientFailures
  /\ amt' = [amt EXCEPT ![r] = 0]
  /\ sourceTxIds' = [sourceTxIds EXCEPT ![r] = None]
  /\ attestationIds' = [attestationIds EXCEPT ![r] = None]
  /\ destTxIds' = [destTxIds EXCEPT ![r] = None]
  /\ IF StopRetrying(retryCount[r], maxRetries[r], errorMessage)
     THEN /\ result' = [result EXCEPT ![r] = FailureResult(errorMessage, retryCount[r])]
          /\ cpc' = [cpc EXCEPT ![r] = "done"]
          /\ UNCHANGED <<retryCount, backoffTime>>
     ELSE /\ retryCount' = [q \in Runs |-> retryCount[q] + 1]
          /\ \E jitter \in Jitters :
               backoffTime' = [backoffTime EXCEPT ![r] =
                                 Backoff(initialBackoff[r], retryCount[r] + 1, jitter)]
          /\ cpc' = [cpc EXCEPT ![r] = "sleep"]
          /\ UNCHANGED result

\* the catch block: return the failure, or count the retry and compute the
\* delay; the constants of the try block go out of scope
Catch(r, errorMessage) ==
  /\ IF IsOverloadedError(errorMessage)
     THEN /\ transientFailures' = [transientFailures EXCEPT ![r] = @ + 1]
          /\ UNCHANGED fatalFailures
     ELSE /\ fatalFailures' = [fatalFailures EXCEPT ![r] = @ + 1]
          /\ UNCHANGED transientFailures
  /\ amt' = [amt EXCEPT ![r] = 0]
  /\ sourceTxIds' = [sourceTxIds EXCEPT ![r] = None]
  /\ attestationIds' = [attestationIds EXCEPT ![r] = None]
  /\ destTxIds' = [destTxIds EXCEPT ![r] = None]
  /\ IF StopRetrying(retryCount[r], maxRetries[r], errorMessage)
     THEN /\ result' = [result EXCEPT ![r] = FailureResult(errorMessage, retryCount[r])]
          /\ cpc' = [cpc EXCEPT ![r] = "done"]
          /\ UNCHANGED <<retryCount, backoffTime>>
     ELSE /\ retryCount' = [retryCount EXCEPT ![r] = @ + 1]
          /\ \E jitter \in Jitters :
               backoffTime' = [backoffTime EXCEPT ![r] =
                                 Backoff(initialBackoff[r], retryCount[r] + 1, jitter)]
          /\ cpc' = [cpc EXCEPT ![r] = "sleep"]
          /\ UNCHANGED result

\* a step of the try block that touches nothing but the control state
Proceed(r, next) ==
  /\ cpc' = [cpc EXCEPT ![r] = next]
  /\ UNCHANGED <<retryCount, backoffTime, amt, sourceTxIds, attestationIds,
                 destTxIds, result, transientFailures, fatalFailures>>

\* a call of transferUsdcWithCctp(request, maxRetries, initialBackoff) with
\* arguments drawn from the given sets
CctpCallWith(r, requests, maxes, backoffs) ==
  /\ cpc[r] = "idle"
  /\ \E req \in requests, max \in maxes, init \in backoffs :
       /\ request' = [request EXCEPT ![r] = req]
       /\ maxRetries' = [maxRetries EXCEPT ![r] = max]
       /\ initialBackoff' = [initialBackoff EXCEPT ![r] = init]
       /\ retryCount' = [retryCount EXCEPT ![r] = 0]
       /\ backoffTime' = [backoffTime EXCEPT ![r] = init]
  /\ cpc' = [cpc EXCEPT ![r] = "loop"]
  /\ UNCHANGED <<outsideCctp, amt, sourceTxIds, attestationIds, destTxIds, result,
                 srcSubmitted, dstCompleted, attempts, sleeps, attestTimeouts,
                 completeFailures, transientFailures, fatalFailures>>

CctpCall(r) == CctpCallWith(r, CctpRequests, (-1)..MaxRetriesArg, InitialBackoffs)

\* while (retryCount <= maxRetries), and the return after the loop
CctpLoop(r) ==
  /\ cpc[r] = "loop"
  /\ IF retryCount[r] <= maxRetries[r]
     THEN /\ cpc' = [cpc EXCEPT ![r] = "wormhole"]
          /\ attempts' = [attempts EXCEPT ![r] = @ + 1]
          /\ UNCHANGED result
     ELSE /\ cpc' = [cpc EXCEPT ![r] = "done"]
          /\ result' = [result EXCEPT ![r] =
                          FailureResult(MsgMaxRetriesReached, retryCount[r])]
          /\ UNCHANGED attempts
  /\ UNCHANGED <<outsideCctp, request, maxRetries, initialBackoff, retryCount,
                 backoffTime, amt, sourceTxIds, attestationIds, destTxIds,
                 srcSubmitted, dstCompleted, sleeps, attestTimeouts, completeFailures,
                 transientFailures, fatalFailures>>

\* const { networkType = "Mainnet" } = request
CctpNetwork(req) == IF req.networkType = "" THEN "Mainnet" ELSE req.networkType

\* await wormhole(networkType, ...), getChain(sourceChainId), getChain(targetChain)
CctpWormhole(r) ==
  /\ cpc[r] = "wormhole"
  /\ \/ /\ Proceed(r, "sourceSigner")
        /\ chainContexts' = GetChains(CctpNetwork(request[r]),
                                      {SourceChainId, request[r].targetChain})
     \/ /\ \E e \in RemoteErrors : Catch(r, e)
        /\ UNCHANGED chainContexts
  /\ UNCHANGED <<env, helperVars, creditVars, wrapVars, transferVars, request, maxRetries, initialBackoff, srcSubmitted,
                 dstCompleted, attempts, sleeps, attestTimeouts, completeFailures>>

\* await getSigner(sourceChain)
CctpSourceSigner(r) ==
  /\ cpc[r] = "sourceSigner"
  /\ LET s == GetSignerForChain(SourceChainId, 0, env)
     IN \/ IF s.ok THEN Proceed(r, "destSigner") ELSE Catch(r, s.errorMessage)
        \/ \E e \in RemoteErrors : Catch(r, e)
  /\ UNCHANGED <<outsideCctp, request, maxRetries, initialBackoff, srcSubmitted,
                 dstCompleted, attempts, sleeps, attestTimeouts, completeFailures>>

\* await getSigner(destChain)
CctpDestSigner(r) ==
  /\ cpc[r] = "destSigner"
  /\ LET s == GetSignerForChain(request[r].targetChain, 0, env)
     IN \/ IF s.ok THEN Proceed(r, "circleTransfer") ELSE Catch(r, s.errorMessage)
        \/ \E e \in RemoteErrors : Catch(r, e)
  /\ UNCHANGED <<outsideCctp, request, maxRetries, initialBackoff, srcSubmitted,
                 dstCompleted, attempts, sleeps, attestTimeouts, completeFailures>>

\* const amt = ...; await whInstance.circleTransfer(amt, ...)
CctpCircleTransfer(r) ==
  /\ cpc[r] = "circleTransfer"
  /\ \/ /\ amt' = [amt EXCEPT ![r] = Amt(request[r].transferAmount)]
        /\ cpc' = [cpc EXCEPT ![r] = "quote"]
        /\ UNCHANGED <<retryCount, backoffTime, sourceTxIds, attestationIds,
                       destTxIds, result, transientFailures, fatalFailures>>
     \/ \E e \in RemoteErrors : Catch(r, e)
  /\ UNCHANGED <<outsideCctp, request, maxRetries, initialBackoff, srcSubmitted,
                 dstCompleted, attempts, sleeps, attestTimeouts, completeFailures>>

\* await CircleTransfer.quoteTransfer(...)
CctpQuoteTransfer(r) ==
  /\ cpc[r] = "quote"
  /\ \/ Proceed(r, "initiate")
     \/ \E e \in RemoteErrors : Catch(r, e)
  /\ UNCHANGED <<outsideCctp, request, maxRetries, initialBackoff, srcSubmitted,
                 dstCompleted, attempts, sleeps, attestTimeouts, completeFailures>>

\* await circleTransfer.initiateTransfer(sourceSigner.signer)
CctpInitiateTransfer(r) ==
  /\ cpc[r] = "initiate"
  /\ \/ /\ srcSubmitted' = [srcSubmitted EXCEPT ![r] = Append(@, amt[r])]
        /\ sourceTxIds' = [sourceTxIds EXCEPT ![r] = <<Len(srcSubmitted[r]) + 1>>]
        /\ cpc' = [cpc EXCEPT ![r] = "attest"]
        /\ UNCHANGED <<retryCount, backoffTime, amt, attestationIds, destTxIds, result,
                       transientFailures, fatalFailures>>
     \/ /\ \E e \in RemoteErrors : Catch(r, e)
        /\ UNCHANGED srcSubmitted
  /\ UNCHANGED <<outsideCctp, request, maxRetries, initialBackoff, dstCompleted,
                 attempts, sleeps, attestTimeouts, completeFailures>>

\* await circleTransfer.fetchAttestation(timeout)
CctpFetchAttestation(r) ==
  /\ cpc[r] = "attest"
  /\ \/ /\ attestationIds' = [attestationIds EXCEPT ![r] = sourceTxIds[r]]
        /\ cpc' = [cpc EXCEPT ![r] = "complete"]
        /\ UNCHANGED <<retryCount, backoffTime, amt, sourceTxIds, destTxIds, result,
                       attestTimeouts, transientFailures, fatalFailures>>
     \/ /\ \E e \in RemoteErrors : Catch(r, e)
        /\ UNCHANGED attestTimeouts
     \/ /\ \E e \in TimeoutErrors : Catch(r, e)
        /\ attestTimeouts' = [attestTimeouts EXCEPT ![r] = @ + 1]
  /\ UNCHANGED <<outsideCctp, request, maxRetries, initialBackoff, srcSubmitted,
                 dstCompleted, attempts, sleeps, completeFailures>>

\* await circleTransfer.completeTransfer(destSigner.signer), and the return
CctpCompleteTransfer(r) ==
  /\ cpc[r] = "complete"
  /\ \/ /\ dstCompleted' = [dstCompleted EXCEPT ![r] = @ + 1]
        /\ destTxIds' = [destTxIds EXCEPT ![r] = <<dstCompleted[r] + 1>>]
        /\ result' = [result EXCEPT ![r] = SuccessResult(r)]
        /\ cpc' = [cpc EXCEPT ![r] = "done"]
        /\ UNCHANGED <<retryCount, backoffTime, amt, sourceTxIds, attestationIds,
                       completeFailures, transientFailures, fatalFailures>>
     \/ /\ \E e \in RemoteErrors : Catch(r, e)
        /\ completeFailures' = [completeFailures EXCEPT ![r] = @ + 1]
        /\ UNCHANGED dstCompleted
  /\ UNCHANGED <<outsideCctp, request, maxRetries, initialBackoff, srcSubmitted,
                 attempts, sleeps, attestTimeouts>>

\* await sleep(backoffTime)
CctpSleep(r) ==
  /\ cpc[r] = "sleep"
  /\ sleeps' = [sleeps EXCEPT ![r] = @ + 1]
  /\ cpc' = [cpc EXCEPT ![r] = "loop"]
  /\ UNCHANGED <<outsideCctp, request, maxRetries, initialBackoff, retryCount,
                 backoffTime, amt, sourceTxIds, attestationIds, destTxIds, result,
                 srcSubmitted, dstCompleted, attempts, attestTimeouts, completeFailures,
                 transientFailures, fatalFailures>>

NoRequest == [targetChain |-> "", transferAmount |-> None, networkType |-> ""]
NoResult == [isSuccess |-> FALSE, errorMessage |-> None, retryAttempts |-> -1]

CctpInit ==
  /\ cpc = [r \in Runs |-> "idle"]
  /\ request = [r \in Runs |-> NoRequest]
  /\ maxRetries = [r \in Runs |-> 0]
  /\ initialBackoff = [r \in Runs |-> 0]
  /\ retryCount = [r \in Runs |-> 0]
  /\ backoffTime = [r \in Runs |-> 0]
  /\ amt = [r \in Runs |-> 0]
  /\ sourceTxIds = [r \in Runs |-> None]
  /\ attestationIds = [r \in Runs |-> None]
  /\ destTxIds = [r \in Runs |-> None]
  /\ result = [r \in Runs |-> NoResult]
  /\ srcSubmitted = [r \in Runs |-> <<>>]
  /\ dstCompleted = [r \in Runs |-> 0]
  /\ attempts = [r \in Runs |-> 0]
  /\ sleeps = [r \in Runs |-> 0]
  /\ attestTimeouts = [r \in Runs |-> 0]
  /\ completeFailures = [r \in Runs |-> 0]
  /\ transientFailures = [r \in Runs |-> 0]
  /\ fatalFailures = [r \in Runs |-> 0]

\* the steps of a run of transferUsdcWithCctp after its entry
CctpSteps(r) ==
  \/ CctpLoop(r)
  \/ CctpWormhole(r)
  \/ CctpSourceSigner(r)
  \/ CctpDestSigner(r)
  \/ CctpCircleTransfer(r)
  \/ CctpQuoteTransfer(r)
  \/ CctpInitiateTransfer(r)
  \/ CctpFetchAttestation(r)
  \/ CctpCompleteTransfer(r)
  \/ CctpSleep(r)

\* one run of transferUsdcWithCctp, from the call to the return
CctpRun(r) == CctpCall(r) \/ CctpSteps(r)

-----------------------------------------------------------------------------
(* Wrapped-token provisioning: wrappedToken.ts *)

\* the callers of createAptosWrappedToken and tokenTransfer
Procs == {1, 2}
\* network environments, origin tokens on Aptos, destination chains
Networks == {"Mainnet", "Testnet"}
Tokens == {"0xa", "0xb"}
WrapTargetChains == {"Ethereum"}
NoAddr == <<"null">>
Throws == <<"throw">>

\* const gasLimitValue = BigInt(2_500_000)
GasLimitValue == 2500000
\* const maxPollingAttempts = 10
MaxPollingAttempts == 10
\* lookups of one polling loop that return an empty value without throwing
MaxEmptyLookups == 1
\* setTimeout(resolve, 2000): the wait between two lookups, in ms
WrapPollInterval == 2000

WrappedTokenRequests ==
  [targetChain : WrapTargetChains, originTokenAddress : Tokens,
   networkType : NetworkTypes]

\* networkType || "Mainnet"
WrapNetwork(req) == IF req.networkType = "" THEN "Mainnet" ELSE req.networkType

\* the idempotency key of a request on the destination chain
WrapKey(req) == <<WrapNetwork(req), req.targetChain, req.originTokenAddress>>
WrapKeys == Networks \X WrapTargetChains \X Tokens

\* the address the token bridge of the destination chain gives the wrapped token
WrappedAddressOf(key) == <<"wrapped", key[2], key[3]>>

\* tokenBridge.getWrappedAsset(tokenId): what a lookup may answer: the address,
\* an empty value, or Throws (not wrapped, not yet visible, or the RPC failed)
LookupAnswers(key) ==
  {Throws} \cup (IF wrapped[key] # NoAddr THEN {wrapped[key]} ELSE {NoAddr})

\* checkWrappedTokenExists: the lookup, with every error turned into null
CheckWrappedTokenExists(answer) == IF answer = Throws THEN NoAddr ELSE answer

\* mutant: the early return is never taken
AlreadyWrapped_Never(existing) == FALSE

\* if (existingWrappedToken)
AlreadyWrapped(existing) == existing # NoAddr

\* mutant: the early return reports let wrappedAsset, still null, as the address
WrapSuccess_NullAddress(req, tokenAddress) ==
  [isSuccess |-> TRUE,
   wrappedTokenInfo |-> [chainId |-> req.targetChain, tokenAddress |-> NoAddr]]

\* the early return of createAptosWrappedToken
WrapSuccess(req, tokenAddress) ==
  [isSuccess |-> TRUE,
   wrappedTokenInfo |-> [chainId |-> req.targetChain, tokenAddress |-> tokenAddress]]

WrapCreated(req, tokenAddress, txid) ==
  [isSuccess |-> TRUE,
   wrappedTokenInfo |-> [chainId |-> req.targetChain, tokenAddress |-> tokenAddress],
   attestTxHash |-> txid]

\* mutant: the failure is returned without the message of the error
WrapFailure_NoMessage(errorMessage) == [isSuccess |-> FALSE, errorMessage |-> None]

\* the return of the catch block of createAptosWrappedToken
WrapFailure(errorMessage) == [isSuccess |-> FALSE, errorMessage |-> errorMessage]

\* the catch block of createAptosWrappedToken
WrapCatch(p, errorMessage) ==
  /\ wres' = [wres EXCEPT ![p] = WrapFailure(errorMessage)]
  /\ wpc' = [wpc EXCEPT ![p] = "done"]

\* the parts of the state a step of p leaves alone unless it says otherwise
WrapLocalsUnchanged ==
  UNCHANGED <<wreq, existingWrappedToken, primaryTxId, wrappedAsset, attemptCount>>
WrapWorldUnchanged ==
  UNCHANGED <<wrapped, attestTxs, registerTxs, secretsRead, signerCalls, emptyLookups,
              wrapWaited, priorSuccess>>

\* a remote call that returns (next step) or throws (catch block)
WrapRemote(p, next) ==
  \/ wpc' = [wpc EXCEPT ![p] = next] /\ UNCHANGED wres
  \/ \E e \in RemoteErrors : WrapCatch(p, e)

\* the entry of createAptosWrappedToken(request)
WrapEnter(p, req) ==
  /\ wpc[p] = "idle"
  /\ wreq' = [wreq EXCEPT ![p] = req]
  /\ wpc' = [wpc EXCEPT ![p] = "wormhole"]
  /\ existingWrappedToken' = [existingWrappedToken EXCEPT ![p] = NoAddr]
  /\ primaryTxId' = [primaryTxId EXCEPT ![p] = 0]
  /\ wrappedAsset' = [wrappedAsset EXCEPT ![p] = NoAddr]
  /\ attemptCount' = [attemptCount EXCEPT ![p] = 0]
  /\ priorSuccess' = [priorSuccess EXCEPT ![p] =
       \E q \in Procs \ {p} :
         wpc[q] = "done" /\ wres[q].isSuccess /\ WrapKey(wreq[q]) = WrapKey(req)]
  /\ UNCHANGED <<wres, wrapped, attestTxs, registerTxs, secretsRead, signerCalls,
                 emptyLookups, wrapWaited>>

\* a direct call of createAptosWrappedToken
WrapCall(p) ==
  /\ \E req \in WrappedTokenRequests : WrapEnter(p, req)
  /\ UNCHANGED outsideWrap

\* await wormhole(networkType || "Mainnet", ...), getChain("Aptos"), getChain(targetChain)
WrapWormhole(p) ==
  /\ wpc[p] = "wormhole"
  /\ \/ /\ wpc' = [wpc EXCEPT ![p] = "check"] /\ UNCHANGED wres
        /\ chainContexts' = GetChains(WrapNetwork(wreq[p]),
                                      {SourceChainId, wreq[p].targetChain})
     \/ /\ \E e \in RemoteErrors : WrapCatch(p, e)
        /\ UNCHANGED chainContexts
  /\ WrapLocalsUnchanged /\ WrapWorldUnchanged
  /\ UNCHANGED <<env, helperVars, creditVars, cctpVars, transferVars>>

\* await checkWrappedTokenExists(...), and the early return
WrapCheck(p) ==
  /\ wpc[p] = "check"
  /\ \E answer \in LookupAnswers(WrapKey(wreq[p])) :
       LET existing == CheckWrappedTokenExists(answer)
       IN /\ existingWrappedToken' = [existingWrappedToken EXCEPT ![p] = existing]
          /\ IF AlreadyWrapped(existing)
             THEN /\ wres' = [wres EXCEPT ![p] = WrapSuccess(wreq[p], existing)]
                  /\ wpc' = [wpc EXCEPT ![p] = "done"]
             ELSE /\ wpc' = [wpc EXCEPT ![p] = "destSigner"]
                  /\ UNCHANGED wres
  /\ UNCHANGED <<wreq, primaryTxId, wrappedAsset, attemptCount>>
  /\ WrapWorldUnchanged /\ UNCHANGED outsideWrap

\* await getSigner(chain, gasLimit) of createAptosWrappedToken
WrapGetSigner(p, chain, gasLimit, next) ==
  /\ LET s == GetSignerForChain(chain, gasLimit, env)
     IN /\ signerCalls' = [signerCalls EXCEPT ![p] = @ + 1]
        /\ \/ /\ secretsRead' = [secretsRead EXCEPT ![p] = @ \cup s.read]
              /\ IF s.ok
                 THEN wpc' = [wpc EXCEPT ![p] = next] /\ UNCHANGED wres
                 ELSE WrapCatch(p, s.errorMessage)
           \/ /\ \E e \in RemoteErrors : WrapCatch(p, e)
              /\ UNCHANGED secretsRead
  /\ WrapLocalsUnchanged
  /\ UNCHANGED <<wrapped, attestTxs, registerTxs, emptyLookups, wrapWaited, priorSuccess,
                 outsideWrap>>

\* const { signer: destSigner } = await getSigner(destinationChain, gasLimitValue)
WrapDestSigner(p) ==
  /\ wpc[p] = "destSigner"
  /\ WrapGetSigner(p, wreq[p].targetChain, GasLimitValue, "originSigner")

\* const { signer: originSigner } = await getSigner(originChain)
WrapOriginSigner(p) ==
  /\ wpc[p] = "originSigner"
  /\ WrapGetSigner(p, SourceChainId, 0, "tokenBridges")

\* await destinationChain.getTokenBridge(), await originChain.getTokenBridge()
WrapTokenBridges(p) ==
  /\ wpc[p] = "tokenBridges"
  /\ WrapRemote(p, "createAttestation")
  /\ WrapLocalsUnchanged /\ WrapWorldUnchanged /\ UNCHANGED outsideWrap

\* await signSendWait(originChain, attestationTxs, originSigner)
WrapCreateAttestation(p) ==
  /\ wpc[p] = "createAttestation"
  /\ \/ /\ attestTxs' = [attestTxs EXCEPT ![p] = @ + 1]
        /\ primaryTxId' = [primaryTxId EXCEPT ![p] = attestTxs[p] + 1]
        /\ wpc' = [wpc EXCEPT ![p] = "parseTransaction"]
        /\ UNCHANGED wres
     \/ /\ \E e \in RemoteErrors : WrapCatch(p, e)
        /\ UNCHANGED <<attestTxs, primaryTxId>>
  /\ UNCHANGED <<wreq, existingWrappedToken, wrappedAsset, attemptCount>>
  /\ UNCHANGED <<wrapped, registerTxs, secretsRead, signerCalls, emptyLookups,
                 wrapWaited, priorSuccess, outsideWrap>>

\* await originChain.parseTransaction(primaryTxId), and the test of messages
WrapParseTransaction(p) ==
  /\ wpc[p] = "parseTransaction"
  /\ \/ WrapRemote(p, "getVaa")
     \/ WrapCatch(p, MsgNoMessages)
  /\ WrapLocalsUnchanged /\ WrapWorldUnchanged /\ UNCHANGED outsideWrap

\* await whInstance.getVaa(messages[0], "TokenBridge:AttestMeta", timeoutMs)
WrapGetVaa(p) ==
  /\ wpc[p] = "getVaa"
  /\ \/ WrapRemote(p, "submitAttestation")
     \/ WrapCatch(p, MsgVaaNotAvailable)
  /\ WrapLocalsUnchanged /\ WrapWorldUnchanged /\ UNCHANGED outsideWrap

\* the token bridge of the destination chain registers the wrapped token of
\* the attested token; a token already registered keeps its address
Register(key) ==
  [wrapped EXCEPT ![key] = IF @ = NoAddr THEN WrappedAddressOf(key) ELSE @]

\* await signSendWait(destinationChain, submitAttestation, destSigner)
WrapSubmitAttestation(p) ==
  /\ wpc[p] = "submitAttestation"
  /\ \/ /\ registerTxs' = [registerTxs EXCEPT ![p] = @ + 1]
        /\ wrapped' = Register(WrapKey(wreq[p]))
        /\ wpc' = [wpc EXCEPT ![p] = "poll"]
        /\ UNCHANGED wres
     \/ /\ \E e \in RemoteErrors : WrapCatch(p, e)
        /\ UNCHANGED <<registerTxs, wrapped>>
  /\ WrapLocalsUnchanged
  /\ UNCHANGED <<attestTxs, secretsRead, signerCalls, emptyLookups, wrapWaited,
                 priorSuccess, outsideWrap>>

\* while (!wrappedAsset && attemptCount < maxPollingAttempts)
PollAgain(asset, count) == asset = NoAddr /\ count < MaxPollingAttempts

\* mutant: the result of the polling loop is not tested
WrappedAssetMissing_Never(asset) == FALSE

\* if (!wrappedAsset) after the polling loop
WrappedAssetMissing(asset) == asset = NoAddr

\* one turn of the polling loop up to its await, or the code after the loop
WrapPoll(p) ==
  /\ wpc[p] = "poll"
  /\ IF PollAgain(wrappedAsset[p], attemptCount[p])
     THEN \E answer \in LookupAnswers(WrapKey(wreq[p])) :
            IF answer = Throws
            THEN /\ attemptCount' = [attemptCount EXCEPT ![p] = @ + 1]
                 /\ wpc' = [wpc EXCEPT ![p] = "pollSleep"]
                 /\ UNCHANGED <<wrappedAsset, wres, emptyLookups>>
            ELSE /\ answer = NoAddr => emptyLookups[p] < MaxEmptyLookups
                 /\ wrappedAsset' = [wrappedAsset EXCEPT ![p] = answer]
                 /\ emptyLookups' = [emptyLookups EXCEPT ![p] =
                                       IF answer = NoAddr THEN @ + 1 ELSE @]
                 /\ UNCHANGED <<attemptCount, wpc, wres>>
     ELSE /\ IF WrappedAssetMissing(wrappedAsset[p])
             THEN WrapCatch(p, MsgWrappedNotAvailable)
             ELSE /\ wres' = [wres EXCEPT ![p] =
                                WrapCreated(wreq[p], wrappedAsset[p], primaryTxId[p])]
                  /\ wpc' = [wpc EXCEPT ![p] = "done"]
          /\ UNCHANGED <<wrappedAsset, attemptCount, emptyLookups>>
  /\ UNCHANGED <<wreq, existingWrappedToken, primaryTxId>>
  /\ UNCHANGED <<wrapped, attestTxs, registerTxs, secretsRead, signerCalls,
                 wrapWaited, priorSuccess, outsideWrap>>

\* await new Promise((resolve) => setTimeout(resolve, 2000))
WrapPollSleep(p) ==
  /\ wpc[p] = "pollSleep"
  /\ wpc' = [wpc EXCEPT ![p] = "poll"]
  /\ wrapWaited' = [wrapWaited EXCEPT ![p] = @ + WrapPollInterval]
  /\ UNCHANGED wres
  /\ WrapLocalsUnchanged
  /\ UNCHANGED <<wrapped, attestTxs, registerTxs, secretsRead, signerCalls, emptyLookups,
                 priorSuccess, outsideWrap>>

\* the steps of a call of createAptosWrappedToken after its entry
WrapRun(p) ==
  \/ WrapWormhole(p)
  \/ WrapCheck(p)
  \/ WrapDestSigner(p)
  \/ WrapOriginSigner(p)
  \/ WrapTokenBridges(p)
  \/ WrapCreateAttestation(p)
  \/ WrapParseTransaction(p)
  \/ WrapGetVaa(p)
  \/ WrapSubmitAttestation(p)
  \/ WrapPoll(p)
  \/ WrapPollSleep(p)

NoWrapRequest == [targetChain |-> "", originTokenAddress |-> "", networkType |-> ""]

\* the destination chains before any call: nothing wrapped, or one token
EmptyRegistry == [key \in WrapKeys |-> NoAddr]
Registries ==
  {EmptyRegistry} \cup
  {[EmptyRegistry EXCEPT ![key] = WrappedAddressOf(key)] : key \in WrapKeys}

WrapInit ==
  /\ wpc = [p \in Procs |-> "idle"]
  /\ wreq = [p \in Procs |-> NoWrapRequest]
  /\ existingWrappedToken = [p \in Procs |-> NoAddr]
  /\ primaryTxId = [p \in Procs |-> 0]
  /\ wrappedAsset = [p \in Procs |-> NoAddr]
  /\ attemptCount = [p \in Procs |-> 0]
  /\ wres = [p \in Procs |-> WrapFailure(None)]
  /\ attestTxs = [p \in Procs |-> 0]
  /\ registerTxs = [p \in Procs |-> 0]
  /\ secretsRead = [p \in Procs |-> {}]
  /\ signerCalls = [p \in Procs |-> 0]
  /\ emptyLookups = [p \in Procs |-> 0]
  /\ wrapWaited = [p \in Procs |-> 0]
  /\ priorSuccess = [p \in Procs |-> FALSE]

-----------------------------------------------------------------------------
(* Token transfer: tokenTransfer.ts *)

\* const maxAttempts = 10
MaxAttempts == 10
\* fetchAttestation calls of one polling loop that return an empty value
MaxEmptyFetches == 1
\* fetchAttestation calls of one polling loop that throw only when their own
\* timeout has run out
MaxSlowFetches == 1
\* transfer.fetchAttestation(60_000): the timeout of one call, in ms
FetchTimeout == 60000
\* setTimeout(resolve, 30000): the wait between two calls, in ms
TransferPollInterval == 30000
\* const useAutomatic = false
UseAutomatic == FALSE
\* whInstance.getDecimals: the precisions a token may have
TokenDecimals == {6, 8}

\* request.tokenAddress: omitted, a string, a TokenId object, or anything else
TokenAddresses ==
  {[kind |-> "absent", address |-> ""], [kind |-> "string", address |-> "0xa"],
   [kind |-> "tokenId", address |-> "0xb"], [kind |-> "other", address |-> ""]}

\* request.transferAmount; None stands for an omitted one
TokenTransferRequests ==
  [targetChain : WrapTargetChains, networkType : NetworkTypes,
   transferAmount : {None, <<"2",".","2","5">>},
   tokenAddress : TokenAddresses]

\* the address of let tokenIdentifier after the if / else if chain
TokenIdentifierOf(tokenAddress) ==
  CASE tokenAddress.kind = "absent" -> "native"
    [] tokenAddress.kind = "string" -> tokenAddress.address
    [] tokenAddress.kind = "tokenId" -> tokenAddress.address
    [] OTHER -> "native"

\* mutant: the wrapped token is never looked up
NeedsWrapped_Never(address) == FALSE

\* if (tokenIdentifier.address !== "native")
NeedsWrapped(address) == address # "native"

\* the network of whInstance: networkType || "Mainnet"
TransferNetwork(req) == IF req.networkType = "" THEN "Mainnet" ELSE req.networkType

\* the request tokenTransfer passes to createAptosWrappedToken
WrappingRequest(req, tokenAddressString) ==
  [targetChain |-> req.targetChain, originTokenAddress |-> tokenAddressString,
   networkType |-> IF req.networkType = "" THEN "Testnet" ELSE req.networkType]

\* transferAmount ?? "0.01"
AmountToTransfer(req) ==
  IF req.transferAmount = None THEN <<"0",".","0","1">> ELSE req.transferAmount

\* mutant: the result of createAptosWrappedToken is not tested
WrappingFailed_Ignored(wrappingResult) == FALSE

\* if (!wrappingResult.isSuccess) throw ...
WrappingFailed(wrappingResult) == ~wrappingResult.isSuccess

\* mutant: the return of the automatic branch is taken for manual transfers
TransferSuccess_Automatic(p) ==
  [isSuccess |-> TRUE, sourceTransactions |-> ttSourceTxIds[p],
   transferId |-> ttSourceTxIds[p][1]]

\* the return of a manual transfer that completed
TransferSuccess(p) ==
  [isSuccess |-> TRUE, sourceTransactions |-> ttSourceTxIds[p],
   destinationTransactions |-> <<ttCompleted[p] + 1>>,
   transferId |-> ttSourceTxIds[p][1]]

TransferFailure(errorMessage) == [isSuccess |-> FALSE, errorMessage |-> errorMessage]

\* the catch block of tokenTransfer
TransferCatch(p, errorMessage) ==
  /\ tres' = [tres EXCEPT ![p] = TransferFailure(errorMessage)]
  /\ tpc' = [tpc EXCEPT ![p] = "done"]

TransferLocalsUnchanged ==
  UNCHANGED <<treq, tokenIdentifier, decimals, transferUnits, ttSourceTxIds,
              attestation, ttAttemptCount>>
TransferWorldUnchanged ==
  UNCHANGED <<ttSubmitted, ttCompleted, ttEmptyFetches, ttWaited>>

TransferRemote(p, next) ==
  \/ tpc' = [tpc EXCEPT ![p] = next] /\ UNCHANGED tres
  \/ \E e \in RemoteErrors : TransferCatch(p, e)

\* a call of tokenTransfer(request)
TransferCall(p) ==
  /\ tpc[p] = "idle" /\ wpc[p] = "idle"
  /\ \E req \in TokenTransferRequests : treq' = [treq EXCEPT ![p] = req]
  /\ tpc' = [tpc EXCEPT ![p] = "wormhole"]
  /\ UNCHANGED <<tokenIdentifier, decimals, transferUnits, ttSourceTxIds, attestation,
                 ttAttemptCount, tres>>
  /\ TransferWorldUnchanged /\ UNCHANGED <<outsideTransfer, wrapVars>>

\* await wormhole(networkType || "Mainnet", ...), getChain(sourceChainId)
TransferWormhole(p) ==
  /\ tpc[p] = "wormhole"
  /\ \/ /\ tpc' = [tpc EXCEPT ![p] = "sourceSigner"] /\ UNCHANGED tres
        /\ chainContexts' = GetChains(TransferNetwork(treq[p]),
                                      {SourceChainId, treq[p].targetChain})
     \/ /\ \E e \in RemoteErrors : TransferCatch(p, e)
        /\ UNCHANGED chainContexts
  /\ TransferLocalsUnchanged /\ TransferWorldUnchanged
  /\ UNCHANGED <<env, helperVars, creditVars, cctpVars, wrapVars>>

\* await getSignerForChain(sourceChain)
TransferSourceSigner(p) ==
  /\ tpc[p] = "sourceSigner"
  /\ LET s == GetSignerForChain(SourceChainId, 0, env)
     IN \/ IF s.ok
           THEN tpc' = [tpc EXCEPT ![p] = "destSigner"] /\ UNCHANGED tres
           ELSE TransferCatch(p, s.errorMessage)
        \/ \E e \in RemoteErrors : TransferCatch(p, e)
  /\ TransferLocalsUnchanged /\ TransferWorldUnchanged
  /\ UNCHANGED <<outsideTransfer, wrapVars>>

\* await getSignerForChain(destChain), and the choice of tokenIdentifier
TransferDestSigner(p) ==
  /\ tpc[p] = "destSigner"
  /\ LET s == GetSignerForChain(treq[p].targetChain, 0, env)
         address == TokenIdentifierOf(treq[p].tokenAddress)
     IN \/ IF s.ok
           THEN /\ tokenIdentifier' = [tokenIdentifier EXCEPT ![p] = address]
                /\ tpc' = [tpc EXCEPT ![p] =
                             IF NeedsWrapped(address) THEN "checkWrapped" ELSE "decimals"]
                /\ UNCHANGED tres
           ELSE TransferCatch(p, s.errorMessage) /\ UNCHANGED tokenIdentifier
        \/ (\E e \in RemoteErrors : TransferCatch(p, e)) /\ UNCHANGED tokenIdentifier
  /\ UNCHANGED <<treq, decimals, transferUnits, ttSourceTxIds, attestation,
                 ttAttemptCount>>
  /\ TransferWorldUnchanged /\ UNCHANGED <<outsideTransfer, wrapVars>>

\* await checkWrappedTokenExists(...); when it answers null, the call of
\* createAptosWrappedToken up to its first await
TransferCheckWrapped(p) ==
  /\ tpc[p] = "checkWrapped"
  /\ \E answer \in LookupAnswers(<<TransferNetwork(treq[p]), treq[p].targetChain,
                                   tokenIdentifier[p]>>) :
       IF AlreadyWrapped(CheckWrappedTokenExists(answer))
       THEN /\ tpc' = [tpc EXCEPT ![p] = "decimals"]
            /\ UNCHANGED wrapVars
       ELSE /\ tpc' = [tpc EXCEPT ![p] = "createWrapped"]
            /\ WrapEnter(p, WrappingRequest(treq[p], tokenIdentifier[p]))
  /\ UNCHANGED tres
  /\ TransferLocalsUnchanged /\ TransferWorldUnchanged /\ UNCHANGED outsideTransfer

\* the return of await createAptosWrappedToken(...), and the test of its result
TransferCreateWrapped(p) ==
  /\ tpc[p] = "createWrapped" /\ wpc[p] = "done"
  /\ IF WrappingFailed(wres[p])
     THEN TransferCatch(p, MsgFailedToCreateWrappedPrefix \o wres[p].errorMessage)
     ELSE tpc' = [tpc EXCEPT ![p] = "decimals"] /\ UNCHANGED tres
  /\ TransferLocalsUnchanged /\ TransferWorldUnchanged
  /\ UNCHANGED <<outsideTransfer, wrapVars>>

\* await getTokenDecimals(whInstance, tokenIdentifier, sourceChain)
TransferDecimals(p) ==
  /\ tpc[p] = "decimals"
  /\ \/ /\ \E d \in TokenDecimals : decimals' = [decimals EXCEPT ![p] = d]
        /\ tpc' = [tpc EXCEPT ![p] = "tokenTransfer"]
        /\ UNCHANGED tres
     \/ (\E e \in RemoteErrors : TransferCatch(p, e)) /\ UNCHANGED decimals
  /\ UNCHANGED <<treq, tokenIdentifier, transferUnits, ttSourceTxIds, attestation,
                 ttAttemptCount>>
  /\ TransferWorldUnchanged /\ UNCHANGED <<outsideTransfer, wrapVars>>

\* await whInstance.tokenTransfer(tokenIdentifier, amount.units(amount.parse(...)), ...)
TransferCreate(p) ==
  /\ tpc[p] = "tokenTransfer"
  /\ \/ /\ transferUnits' = [transferUnits EXCEPT ![p] =
                               ParseUnits(AmountToTransfer(treq[p]), decimals[p])]
        /\ tpc' = [tpc EXCEPT ![p] = "quote"]
        /\ UNCHANGED tres
     \/ (\E e \in RemoteErrors : TransferCatch(p, e)) /\ UNCHANGED transferUnits
  /\ UNCHANGED <<treq, tokenIdentifier, decimals, ttSourceTxIds, attestation,
                 ttAttemptCount>>
  /\ TransferWorldUnchanged /\ UNCHANGED <<outsideTransfer, wrapVars>>

\* await TokenTransfer.quoteTransfer(...), and the fee test of automatic transfers
TransferQuote(p) ==
  /\ tpc[p] = "quote"
  /\ \/ \E destinationAmount \in {-1, 1} :
          IF UseAutomatic /\ destinationAmount < 0
          THEN TransferCatch(p, MsgAmountTooSmall)
          ELSE tpc' = [tpc EXCEPT ![p] = "initiate"] /\ UNCHANGED tres
     \/ \E e \in RemoteErrors : TransferCatch(p, e)
  /\ TransferLocalsUnchanged /\ TransferWorldUnchanged
  /\ UNCHANGED <<outsideTransfer, wrapVars>>

\* await transfer.initiateTransfer(sourceSigner.signer)
TransferInitiate(p) ==
  /\ tpc[p] = "initiate"
  /\ \/ /\ ttSubmitted' = [ttSubmitted EXCEPT ![p] = Append(@, transferUnits[p])]
        /\ ttSourceTxIds' = [ttSourceTxIds EXCEPT ![p] = <<Len(ttSubmitted[p]) + 1>>]
        /\ tpc' = [tpc EXCEPT ![p] = "poll"]
        /\ UNCHANGED tres
     \/ /\ \E e \in RemoteErrors : TransferCatch(p, e)
        /\ UNCHANGED <<ttSubmitted, ttSourceTxIds>>
  /\ UNCHANGED <<treq, tokenIdentifier, decimals, transferUnits, attestation,
                 ttAttemptCount>>
  /\ UNCHANGED <<ttCompleted, ttEmptyFetches, ttWaited, outsideTransfer, wrapVars>>

\* the calls of fetchAttestation of p that ran into their timeout: each
\* counted attempt waited one interval, the rest of the time is theirs
SlowFetches(p) == (ttWaited[p] - TransferPollInterval * ttAttemptCount[p]) \div FetchTimeout

\* while (!attestation && attemptCount < maxAttempts)
FetchAgain(att, count) == att = None /\ count < MaxAttempts

\* mutant: the result of the attestation loop is not tested
AttestationMissing_Never(att) == FALSE

\* if (!attestation) after the attestation loop
AttestationMissing(att) == att = None

\* one turn of the attestation loop up to its await, or the test after the loop
TransferPoll(p) ==
  /\ tpc[p] = "poll"
  /\ IF FetchAgain(attestation[p], ttAttemptCount[p])
     THEN \/ /\ attestation' = [attestation EXCEPT ![p] = ttSourceTxIds[p]]
             /\ UNCHANGED <<ttAttemptCount, tpc, tres, ttEmptyFetches, ttWaited>>
          \/ /\ ttEmptyFetches[p] < MaxEmptyFetches
             /\ ttEmptyFetches' = [ttEmptyFetches EXCEPT ![p] = @ + 1]
             /\ UNCHANGED <<attestation, ttAttemptCount, tpc, tres, ttWaited>>
          \/ /\ ttAttemptCount' = [ttAttemptCount EXCEPT ![p] = @ + 1]
             /\ tpc' = [tpc EXCEPT ![p] = "pollSleep"]
             /\ \/ UNCHANGED ttWaited
                \/ /\ SlowFetches(p) < MaxSlowFetches
                   /\ ttWaited' = [ttWaited EXCEPT ![p] = @ + FetchTimeout]
             /\ UNCHANGED <<attestation, tres, ttEmptyFetches>>
     ELSE /\ IF AttestationMissing(attestation[p])
             THEN TransferCatch(p, MsgAttestationNotAvailable)
             ELSE tpc' = [tpc EXCEPT ![p] = "complete"] /\ UNCHANGED tres
          /\ UNCHANGED <<attestation, ttAttemptCount, ttEmptyFetches, ttWaited>>
  /\ UNCHANGED <<treq, tokenIdentifier, decimals, transferUnits, ttSourceTxIds>>
  /\ UNCHANGED <<ttSubmitted, ttCompleted, outsideTransfer, wrapVars>>

\* await new Promise((resolve) => setTimeout(resolve, 30000))
TransferPollSleep(p) ==
  /\ tpc[p] = "pollSleep"
  /\ tpc' = [tpc EXCEPT ![p] = "poll"]
  /\ ttWaited' = [ttWaited EXCEPT ![p] = @ + TransferPollInterval]
  /\ UNCHANGED tres
  /\ TransferLocalsUnchanged
  /\ UNCHANGED <<ttSubmitted, ttCompleted, ttEmptyFetches, outsideTransfer, wrapVars>>

\* await transfer.completeTransfer(destSigner.signer), and the return
TransferComplete(p) ==
  /\ tpc[p] = "complete"
  /\ \/ /\ ttCompleted' = [ttCompleted EXCEPT ![p] = @ + 1]
        /\ tres' = [tres EXCEPT ![p] = TransferSuccess(p)]
        /\ tpc' = [tpc EXCEPT ![p] = "done"]
     \/ /\ \E e \in RemoteErrors : TransferCatch(p, e)
        /\ UNCHANGED ttCompleted
  /\ TransferLocalsUnchanged
  /\ UNCHANGED <<ttSubmitted, ttEmptyFetches, ttWaited, outsideTransfer, wrapVars>>

\* the steps of a run of tokenTransfer after its entry
TransferSteps(p) ==
  \/ TransferWormhole(p)
  \/ TransferSourceSigner(p)
  \/ TransferDestSigner(p)
  \/ TransferCheckWrapped(p)
  \/ TransferCreateWrapped(p)
  \/ TransferDecimals(p)
  \/ TransferCreate(p)
  \/ TransferQuote(p)
  \/ TransferInitiate(p)
  \/ TransferPoll(p)
  \/ TransferPollSleep(p)
  \/ TransferComplete(p)

\* a run of tokenTransfer, from the call to the return
TransferRun(p) == TransferCall(p) \/ TransferSteps(p)

NoTransferRequest ==
  [targetChain |-> "", networkType |-> "", transferAmount |-> None,
   tokenAddress |-> [kind |-> "absent", address |-> ""]]

TransferInit ==
  /\ tpc = [p \in Procs |-> "idle"]
  /\ treq = [p \in Procs |-> NoTransferRequest]
  /\ tokenIdentifier = [p \in Procs |-> ""]
  /\ decimals = [p \in Procs |-> -1]
  /\ transferUnits = [p \in Procs |-> -1]
  /\ ttSourceTxIds = [p \in Procs |-> None]
  /\ attestation = [p \in Procs |-> None]
  /\ ttAttemptCount = [p \in Procs |-> 0]
  /\ tres = [p \in Procs |-> TransferFailure(None)]
  /\ ttSubmitted = [p \in Procs |-> <<>>]
  /\ ttCompleted = [p \in Procs |-> 0]
  /\ ttEmptyFetches = [p \in Procs |-> 0]
  /\ ttWaited = [p \in Procs |-> 0]

-----------------------------------------------------------------------------
(* Specifications *)

vars == <<env, helperVars, chainContexts, cctpVars, wrapVars, transferVars,
          creditVars>>

\* the chains a chain context may be created for
ContextChains == {SourceChainId} \cup TargetChains \cup WrapTargetChains

\* buyOpenRouterCredits was not called
CreditsInit ==
  /\ bpc = "idle"
  /\ breq = [amountUsd |-> 0, networkType |-> ""]
  /\ aptosUsdcBalance = -1 /\ usdcBalance = -1
  /\ cctpResult = [isSuccess |-> FALSE, errorMessage |-> <<>>, retryAttempts |-> -1]
  /\ approvalReceipt = "" /\ receipt = ""
  /\ bout = [thrown |-> FALSE, at |-> "", message |-> <<>>]
  /\ baseReads = <<>>
  /\ intentRequests = 0 /\ approvalsSent = 0 /\ transfersSent = 0

\* nothing was resolved or caught yet outside the three functions
HelperInit ==
  /\ CreditsInit
  /\ chainContexts = [k \in Networks \X ContextChains |-> 0]
  /\ schain = SourceChainId /\ sgasLimit = 0 /\ signerInfo = NotResolved
  /\ cMessage = None /\ cCount = 0 /\ cMax = 0 /\ cDecision = ""

Start == env \in Environments /\ HelperInit /\ CctpInit /\ WrapInit /\ TransferInit

\* one run of transferUsdcWithCctp
NextCctp == CctpRun(1)
InitCctp == Start /\ wrapped = EmptyRegistry
SpecCctp == InitCctp /\ [][NextCctp]_vars

\* two concurrent callers of createAptosWrappedToken, nothing wrapped before
NextWrap == \E p \in Procs : WrapCall(p) \/ WrapRun(p)
InitWrap == Start /\ wrapped = EmptyRegistry
SpecWrap == InitWrap /\ [][NextWrap]_vars

\* one run of tokenTransfer, with the provisioning it calls
NextTransfer == TransferRun(1) \/ WrapRun(1)
InitTransfer == Start /\ wrapped \in Registries
SpecTransfer == InitTransfer /\ [][NextTransfer]_vars

-----------------------------------------------------------------------------
(* Claims about transferUsdcWithCctp, checked under SpecCctp *)

Done(r) == cpc[r] = "done"
Failed(r) == Done(r) /\ ~result[r].isSuccess
Completed(r) == Done(r) /\ result[r].isSuccess

\* C1: once an attestation wait of a run has timed out, the run ends FAILED
\* and the source-chain initiation is not submitted a second time in it.
C1_TimeoutIsTerminal ==
  \A r \in Runs :
    attestTimeouts[r] > 0 =>
      /\ Len(srcSubmitted[r]) <= 1
      /\ Done(r) => ~result[r].isSuccess

\* C2: after a completion submission failed, the run never goes back before
\* COMPLETING: the source-chain initiation succeeds at most once in a run and
\* at most one completion succeeds.
C2_CompletionRetriedAlone ==
  \A r \in Runs :
    completeFailures[r] > 0 =>
      /\ Len(srcSubmitted[r]) <= 1
      /\ dstCompleted[r] <= 1

\* C3: every amount submitted to the source chain is the requested amount at
\* 6 decimals, and a success reports the amount that was transferred.
C3_AmountIsRequested ==
  \A r \in Runs :
    /\ \A i \in 1..Len(srcSubmitted[r]) :
         srcSubmitted[r][i] = ParseUnits(request[r].transferAmount, UsdcDecimals)
    /\ Completed(r) =>
         ParseUnits(result[r].amount, UsdcDecimals)
           = srcSubmitted[r][Len(srcSubmitted[r])]

\* C4: a run with maxRetries >= 0 whose attempts all failed with a transient
\* error made exactly maxRetries + 1 attempts and returned FAILED with
\* retryAttempts = maxRetries.
C4_RetryExhaustion ==
  \A r \in Runs :
    (Done(r) /\ maxRetries[r] >= 0 /\ transientFailures[r] = attempts[r]) =>
      /\ attempts[r] = maxRetries[r] + 1
      /\ ~result[r].isSuccess
      /\ result[r].retryAttempts = maxRetries[r]

C4_Witness ==
  \E r \in Runs :
    /\ Done(r) /\ maxRetries[r] = MaxRetriesArg
    /\ transientFailures[r] = attempts[r] /\ attempts[r] = MaxRetriesArg + 1

\* C5: a run whose first attempt threw an error that is not classified
\* transient has made one attempt and no backoff wait, and has returned
\* FAILED with retryAttempts = 0.
C5_FatalShortCircuit ==
  \A r \in Runs :
    (fatalFailures[r] > 0 /\ transientFailures[r] = 0) =>
      /\ attempts[r] = 1
      /\ sleeps[r] = 0
      /\ Failed(r)
      /\ result[r].retryAttempts = 0

C5_Witness ==
  \E r \in Runs :
    /\ fatalFailures[r] = 1 /\ transientFailures[r] = 0
    /\ maxRetries[r] >= 1 /\ Failed(r)

\* C6: a FAILED result carries the source-chain transaction identifiers the
\* run captured, with the last error and the attempt count.
C6_FailureKeepsIdentifiers ==
  \A r \in Runs :
    (Failed(r) /\ srcSubmitted[r] # <<>>) =>
      /\ {"sourceTransactions", "attestationIds", "errorMessage", "retryAttempts"}
           \subseteq DOMAIN result[r]
      /\ result[r].sourceTransactions = <<Len(srcSubmitted[r])>>


-----------------------------------------------------------------------------
(* Claims about createAptosWrappedToken, checked under SpecWrap *)

WrapDone(p) == wpc[p] = "done"
WrapSucceeded(p) == WrapDone(p) /\ wres[p].isSuccess
SameKey(p, q) ==
  wpc[p] # "idle" /\ wpc[q] # "idle" /\ WrapKey(wreq[p]) = WrapKey(wreq[q])

\* C7: a call made after a call with the same key returned success submits
\* no attestation-creation transaction and no registration.
C7_SecondCallSubmitsNothing ==
  \A p \in Procs :
    priorSuccess[p] => attestTxs[p] = 0 /\ registerTxs[p] = 0

\* C8 as stated: two calls with the same key submit at most one
\* attestation-creation and at most one registration between them, and when
\* both succeed they return the same address.
C8_NoDuplicateCreation ==
  \A p, q \in Procs :
    (p # q /\ SameKey(p, q)) =>
      /\ attestTxs[p] + attestTxs[q] <= 1
      /\ registerTxs[p] + registerTxs[q] <= 1
      /\ (WrapSucceeded(p) /\ WrapSucceeded(q)) =>
           wres[p].wrappedTokenInfo.tokenAddress = wres[q].wrappedTokenInfo.tokenAddress

\* C8 as amended: each call submits at most one attestation-creation and at
\* most one registration, and the calls that succeed return the one address
\* the destination chain holds for their key.
C8_ConvergeToOneAddress ==
  /\ \A p \in Procs :
       /\ attestTxs[p] <= 1 /\ registerTxs[p] <= 1
       /\ WrapSucceeded(p) =>
            /\ wres[p].wrappedTokenInfo.tokenAddress # NoAddr
            /\ wres[p].wrappedTokenInfo.tokenAddress = wrapped[WrapKey(wreq[p])]
  /\ \A p, q \in Procs :
       (SameKey(p, q) /\ WrapSucceeded(p) /\ WrapSucceeded(q)) =>
         wres[p].wrappedTokenInfo.tokenAddress = wres[q].wrappedTokenInfo.tokenAddress

C8_Witness ==
  /\ SameKey(1, 2) /\ WrapSucceeded(1) /\ WrapSucceeded(2)
  /\ attestTxs[1] = 1 /\ attestTxs[2] = 1
  /\ registerTxs[1] = 1 /\ registerTxs[2] = 1

\* C9: a call whose first lookup answered an existing address has returned
\* success with that address, has resolved no signer, read no secret and
\* submitted nothing on either chain.
C9_ShortCircuit ==
  \A p \in Procs :
    existingWrappedToken[p] # NoAddr =>
      /\ WrapDone(p)
      /\ wres[p] = [isSuccess |-> TRUE,
                    wrappedTokenInfo |-> [chainId |-> wreq[p].targetChain,
                                          tokenAddress |-> existingWrappedToken[p]]]
      /\ existingWrappedToken[p] = wrapped[WrapKey(wreq[p])]
      /\ signerCalls[p] = 0 /\ secretsRead[p] = {}
      /\ attestTxs[p] = 0 /\ registerTxs[p] = 0

C9_Witness ==
  \E p \in Procs :
    /\ existingWrappedToken[p] # NoAddr /\ WrapDone(p)
    /\ \E q \in Procs \ {p} : attestTxs[q] = 1 /\ registerTxs[q] = 1

-----------------------------------------------------------------------------
(* Claims about tokenTransfer, checked under SpecTransfer *)

\* createAptosWrappedToken was called by the run of p
Provisioning(p) == tpc[p] # "idle" /\ wpc[p] # "idle"

\* C10: while provisioning has not returned, the run waits for it and has
\* initiated nothing; the transfer is initiated only after provisioning
\* returned success; when provisioning failed the run returns a failure and
\* never initiates.
C10_ProvisionBeforeTransfer ==
  \A p \in Procs :
    Provisioning(p) =>
      /\ ~WrapDone(p) => tpc[p] = "createWrapped" /\ ttSubmitted[p] = <<>>
      /\ ttSubmitted[p] # <<>> => WrapSucceeded(p)
      /\ (WrapDone(p) /\ ~wres[p].isSuccess) =>
           /\ tpc[p] \in {"createWrapped", "done"}
           /\ ttSubmitted[p] = <<>>
           /\ tpc[p] = "done" => ~tres[p].isSuccess

C10_Witness ==
  \E p \in Procs :
    /\ Provisioning(p) /\ WrapSucceeded(p)
    /\ attestTxs[p] = 1 /\ registerTxs[p] = 1
    /\ ttSubmitted[p] # <<>>

-----------------------------------------------------------------------------
(* Claims about the polling loops, checked under SpecTransfer *)

\* lookups the availability poll of createAptosWrappedToken has made for p
WrapLookups(p) ==
  attemptCount[p] + emptyLookups[p] + (IF wrappedAsset[p] # NoAddr THEN 1 ELSE 0)

\* fetchAttestation calls the attestation poll of tokenTransfer has made for p
TransferFetches(p) ==
  ttAttemptCount[p] + ttEmptyFetches[p] + (IF attestation[p] # None THEN 1 ELSE 0)

\* C11: each polling loop makes at most its maximum number of lookups (10),
\* whether a lookup throws, returns an empty value or returns the artifact,
\* and a loop that ends without the artifact reports the timeout failure.
C11_PollsBounded ==
  \A p \in Procs :
    /\ WrapLookups(p) <= MaxPollingAttempts
    /\ TransferFetches(p) <= MaxAttempts
    /\ (WrapDone(p) /\ registerTxs[p] = 1 /\ wrappedAsset[p] = NoAddr) =>
         wres[p] = WrapFailure(MsgWrappedNotAvailable)
    /\ (tpc[p] = "done" /\ ttSubmitted[p] # <<>> /\ attestation[p] = None) =>
         tres[p] = TransferFailure(MsgAttestationNotAvailable)

-----------------------------------------------------------------------------
(* Claims about the retry policy of transferUsdcWithCctp, checked under SpecCctp *)

\* initialBackoff * 2^retryCount * jitter of run r, jitter in hundredths
Scaled(r, jitter) == (initialBackoff[r] * Pow(2, retryCount[r]) * jitter) \div 100

\* C12 as stated: the delay computed for attempt n lies within
\* [initialDelay*2^n*0.85, min(initialDelay*2^n*1.15, 60 s)].
C12_BackoffWithinBounds ==
  \A r \in Runs :
    retryCount[r] >= 1 =>
      /\ backoffTime[r] >= Scaled(r, 85)
      /\ backoffTime[r] <= (IF Scaled(r, 115) < 60000 THEN Scaled(r, 115) ELSE 60000)

\* C12 as amended: the delay lies within
\* [min(initialDelay*2^n*0.85, 60 s), min(initialDelay*2^n*1.15, 60 s)], and
\* so never exceeds the 60 s cap.
C12_BackoffWithinCappedBounds ==
  \A r \in Runs :
    retryCount[r] >= 1 =>
      /\ backoffTime[r] >= (IF Scaled(r, 85) < 60000 THEN Scaled(r, 85) ELSE 60000)
      /\ backoffTime[r] <= (IF Scaled(r, 115) < 60000 THEN Scaled(r, 115) ELSE 60000)
      /\ backoffTime[r] <= 60000

C12_Witness ==
  \E r \in Runs :
    /\ cpc[r] = "sleep" /\ retryCount[r] = 2
    /\ Scaled(r, 85) > 60000 /\ backoffTime[r] = 60000

\* C13: the attestation is awaited by one blocking call per attempt; a step
\* in which that call times out leaves the wait at once (no second call in the
\* attempt) and either schedules a retry of the whole operation, when the
\* error is classified transient and retryCount < maxRetries, or returns the
\* failure; a retry starts again from the top of the try block.
C13_TimeoutRetriesWholeOperation ==
  [][\A r \in Runs :
       /\ attestTimeouts'[r] = attestTimeouts[r] + 1 =>
            /\ cpc[r] = "attest"
            /\ attestTimeouts'[r] <= attempts[r]
            /\ \/ /\ cpc'[r] = "sleep"
                  /\ retryCount[r] < maxRetries[r]
                  /\ retryCount'[r] = retryCount[r] + 1
                  /\ sourceTxIds'[r] = None /\ attestationIds'[r] = None
               \/ /\ cpc'[r] = "done"
                  /\ ~result'[r].isSuccess
                  /\ \/ retryCount[r] >= maxRetries[r]
                     \/ ~Includes(result'[r].errorMessage, SigTimeout)
       /\ (cpc[r] = "sleep" /\ cpc'[r] # "sleep") => cpc'[r] = "loop"
       /\ (cpc[r] = "loop" /\ cpc'[r] # "loop" /\ retryCount[r] <= maxRetries[r]) =>
            cpc'[r] = "wormhole" /\ attempts'[r] = attempts[r] + 1
    ]_vars

C13_Witness ==
  \E r \in Runs :
    /\ attestTimeouts[r] = 1 /\ transientFailures[r] = 1 /\ fatalFailures[r] = 0
    /\ attempts[r] = 2 /\ cpc[r] = "attest"

-----------------------------------------------------------------------------
(* A caller that invokes one of the three functions: SpecAny *)

\* no call of any of the functions has been made
NothingCalled ==
  /\ \A r \in Runs : cpc[r] = "idle"
  /\ \A p \in Procs : wpc[p] = "idle" /\ tpc[p] = "idle"

\* the caller's choice of the function it invokes (transferUsdcWithCctp never
\* reads the wrapped tokens: its runs are explored from the empty registry)
CallCctp == NothingCalled /\ wrapped = EmptyRegistry /\ CctpCall(1)
CallWrap == NothingCalled /\ WrapCall(1)
CallTransfer == NothingCalled /\ TransferCall(1)

NextAny ==
  \/ CallCctp
  \/ CallWrap
  \/ CallTransfer
  \/ CctpSteps(1)
  \/ WrapRun(1)
  \/ TransferSteps(1)
\* the destination chains before the call: nothing wrapped, or token 0xa
\* wrapped on Ethereum (Mainnet)
OneWrapped ==
  [EmptyRegistry EXCEPT ![<<"Mainnet", "Ethereum", "0xa">>] =
     WrappedAddressOf(<<"Mainnet", "Ethereum", "0xa">>)]
InitAny == Start /\ wrapped \in {EmptyRegistry, OneWrapped}
SpecAny == InitAny /\ [][NextAny]_vars

-----------------------------------------------------------------------------
(* Claims about the results of the three functions, checked under SpecAny *)

\* a returned object that is a success or a failure with an error message
Terminal(res) ==
  /\ "isSuccess" \in DOMAIN res
  /\ res.isSuccess \/ ("errorMessage" \in DOMAIN res /\ res.errorMessage # None)

\* C14: each of transferUsdcWithCctp, tokenTransfer and createAptosWrappedToken
\* returns once: the returned object is written in the step that ends the
\* call and never after, and it is a success or a failure with a message,
\* whatever the remote calls returned or threw.
C14_OneTerminalResult ==
  [][/\ \A r \in Runs :
          /\ (cpc[r] # "done" /\ cpc'[r] = "done") => Terminal(result'[r])
          /\ result'[r] # result[r] => (cpc[r] # "done" /\ cpc'[r] = "done")
          /\ cpc[r] = "done" => cpc'[r] = "done"
     /\ \A p \in Procs :
          /\ (wpc[p] # "done" /\ wpc'[p] = "done") => Terminal(wres'[p])
          /\ wres'[p] # wres[p] => (wpc[p] # "done" /\ wpc'[p] = "done")
          /\ wpc[p] = "done" => wpc'[p] = "done"
          /\ (tpc[p] # "done" /\ tpc'[p] = "done") => Terminal(tres'[p])
          /\ tres'[p] # tres[p] => (tpc[p] # "done" /\ tpc'[p] = "done")
          /\ tpc[p] = "done" => tpc'[p] = "done"
    ]_vars

C14_Witness ==
  \/ Failed(1) /\ sleeps[1] >= 1 /\ Len(srcSubmitted[1]) >= 1
  \/ /\ tpc[1] = "done" /\ ~tres[1].isSuccess
     /\ WrapDone(1) /\ ~wres[1].isSuccess /\ attestTxs[1] = 1

\* the returned object carries destination-chain transaction identifiers
HasDestinationTransactions(res) ==
  "destinationTransactions" \in DOMAIN res /\ res.destinationTransactions # <<>>

\* C15: a returned result of either transfer function carries destination
\* transaction identifiers exactly when it is a success, and it is a success
\* exactly when the run completed a transfer on the destination chain.
C15_DestinationIffCompleted ==
  /\ \A r \in Runs :
       Done(r) =>
         /\ result[r].isSuccess <=> HasDestinationTransactions(result[r])
         /\ result[r].isSuccess <=> dstCompleted[r] = 1
  /\ \A p \in Procs :
       tpc[p] = "done" =>
         /\ tres[p].isSuccess <=> HasDestinationTransactions(tres[p])
         /\ tres[p].isSuccess <=> ttCompleted[p] = 1

C15_Witness ==
  \E p \in Procs :
    /\ tpc[p] = "done" /\ tres[p].isSuccess /\ ttCompleted[p] = 1
    /\ tres[p].destinationTransactions = <<1>>

-----------------------------------------------------------------------------
(* Further claims about transferUsdcWithCctp, checked under SpecCctp *)

\* C16: initiation, attestation and completion follow one another; a run
\* whose calls all succeeded at the first attempt has initiated once and
\* completed once and returns the success with the three lists of
\* identifiers and retryCount = 0; the retryCount of any success is the
\* number of failed attempts before the successful one.
C16_SuccessCountsRetries ==
  \A r \in Runs :
    /\ cpc[r] = "attest" => sourceTxIds[r] # None /\ attestationIds[r] = None
    /\ cpc[r] = "complete" => sourceTxIds[r] # None /\ attestationIds[r] # None
    /\ Completed(r) =>
         /\ result[r].retryCount = attempts[r] - 1
         /\ result[r].retryCount = transientFailures[r] + fatalFailures[r]
         /\ result[r].sourceTransactions = <<Len(srcSubmitted[r])>>
         /\ result[r].attestationIds # None
         /\ result[r].destinationTransactions = <<1>>
         /\ attempts[r] = 1 =>
              /\ result[r].retryCount = 0 /\ sleeps[r] = 0
              /\ Len(srcSubmitted[r]) = 1 /\ dstCompleted[r] = 1
              /\ result[r].sourceTransactions = <<1>>
              /\ result[r].attestationIds = <<1>>

C16_Witness ==
  \E r \in Runs :
    Completed(r) /\ attempts[r] = 1 /\ result[r].retryCount = 0

-----------------------------------------------------------------------------
(* Further claims about tokenTransfer, checked under SpecTransfer *)

\* C17: a failure of the source-chain initiation ends the run of
\* tokenTransfer only when its error is not transient; a transient one is
\* retried.
C17_TransientInitiationRetried ==
  [][\A p \in Procs :
       (tpc[p] = "initiate" /\ tpc'[p] = "done") =>
         ~IsOverloadedError(tres'[p].errorMessage)
    ]_vars

-----------------------------------------------------------------------------
(* Further claims about createAptosWrappedToken, checked under SpecWrap *)

\* C18: a call that ends at the extraction of the bridge message, at the
\* wait for the VAA or after the availability poll without the wrapped asset
\* returns a failure whose message names that step (or is the message of the
\* error the remote call threw); a call that ended at the message extraction
\* or at the VAA wait has submitted nothing to the destination chain; and a
\* call that has returned submits nothing more.
C18_FailureNamesCause ==
  [][\A p \in Procs :
       /\ (wpc[p] = "parseTransaction" /\ wpc'[p] = "done") =>
            /\ ~wres'[p].isSuccess
            /\ wres'[p].errorMessage \in {MsgNoMessages} \cup RemoteErrors
       /\ (wpc[p] = "getVaa" /\ wpc'[p] = "done") =>
            /\ ~wres'[p].isSuccess
            /\ wres'[p].errorMessage \in {MsgVaaNotAvailable} \cup RemoteErrors
       /\ (wpc[p] = "poll" /\ wpc'[p] = "done" /\ wrappedAsset[p] = NoAddr) =>
            /\ wres'[p] = [isSuccess |-> FALSE, errorMessage |-> MsgWrappedNotAvailable]
            /\ attemptCount[p] = 10
       /\ (wpc'[p] = "done" /\ ~wres'[p].isSuccess
             /\ wres'[p].errorMessage \in {MsgNoMessages, MsgVaaNotAvailable}) =>
            attestTxs'[p] = 1 /\ registerTxs'[p] = 0
       /\ wpc[p] = "done" =>
            /\ wpc'[p] = "done" /\ wres'[p] = wres[p]
            /\ attestTxs'[p] = attestTxs[p] /\ registerTxs'[p] = registerTxs[p]
    ]_vars

C18_Witness ==
  \E p \in Procs :
    /\ WrapDone(p) /\ wres[p] = [isSuccess |-> FALSE, errorMessage |-> MsgVaaNotAvailable]
    /\ attestTxs[p] = 1 /\ registerTxs[p] = 0

-----------------------------------------------------------------------------
(* Claims about configuration errors of transferUsdcWithCctp, checked under SpecCctp *)

\* text begins with prefix
StartsWith(text, prefix) ==
  Len(text) >= Len(prefix) /\ SubSeq(text, 1, Len(prefix)) = prefix

\* the message of an error of signer resolution: a missing secret or an
\* unsupported platform
IsConfigurationError(errorMessage) ==
  \/ StartsWith(errorMessage, MsgMissingEnvPrefix)
  \/ StartsWith(errorMessage, MsgUnsupportedPlatformPrefix)

-----------------------------------------------------------------------------
(* Claims about the duration of the polls, checked under SpecTransfer *)

\* C20: a poll that never yielded its artifact reports its timeout failure
\* no sooner than attempts * interval after it began and no later than one
\* interval more: between 20 s and 22 s for the wrapped-asset poll, between
\* 300 s and 330 s for the attestation poll of tokenTransfer.
C20_TimeoutWithinOneInterval ==
  \A p \in Procs :
    /\ (WrapDone(p) /\ wres[p] = [isSuccess |-> FALSE,
                                  errorMessage |-> MsgWrappedNotAvailable]) =>
         /\ wrapWaited[p] >= 10 * 2000
         /\ wrapWaited[p] <= 10 * 2000 + 2000
    /\ (tpc[p] = "done" /\ tres[p] = [isSuccess |-> FALSE,
                                      errorMessage |-> MsgAttestationNotAvailable]) =>
         /\ ttWaited[p] >= 10 * 30000
         /\ ttWaited[p] <= 10 * 30000 + 30000

-----------------------------------------------------------------------------
(* C22: the chain context of a (chain, network) pair is initialized at most
   once in the process: however many runs and retry attempts resolve the pair,
   no more than one context is ever created for it. *)
C22_ContextInitializedOnce ==
  \A k \in DOMAIN chainContexts : chainContexts[k] <= 1

-----------------------------------------------------------------------------
(* Two runs of transferUsdcWithCctp in one process, their awaits interleaved *)

\* the arguments of the concurrent calls
ConcurrentRequests ==
  {req \in CctpRequests : req.targetChain = "Ethereum" /\ req.networkType = ""
                          /\ req.transferAmount = <<"1">>}
ConcurrentMaxRetries == {0, 1}
ConcurrentBackoffs ==
  {CHOOSE init \in InitialBackoffs : \A other \in InitialBackoffs : init <= other}

CallConcurrently(r) ==
  CctpCallWith(r, ConcurrentRequests, ConcurrentMaxRetries, ConcurrentBackoffs)

NextConcurrent == \E r \in Runs : CallConcurrently(r) \/ CctpSteps(r)
InitConcurrent == Start /\ env = ProcessEnv(Secrets) /\ wrapped = EmptyRegistry
SpecConcurrent == InitConcurrent /\ [][NextConcurrent]_vars

\* everything run r of transferUsdcWithCctp holds, and what it did
RunState(r) ==
  <<cpc[r], request[r], maxRetries[r], initialBackoff[r], retryCount[r],
    backoffTime[r], amt[r], sourceTxIds[r], attestationIds[r], destTxIds[r],
    result[r], srcSubmitted[r], dstCompleted[r], attempts[r], sleeps[r],
    attestTimeouts[r], completeFailures[r], transientFailures[r], fatalFailures[r]>>

\* the counter, the delay and the result of run r follow from r's own history
OwnProgress(r) ==
  /\ cpc[r] \in {"sleep", "loop"} => retryCount[r] = attempts[r]
  /\ cpc[r] \notin {"idle", "sleep", "loop"} /\ attempts[r] > 0 =>
       retryCount[r] = attempts[r] - 1
  /\ retryCount[r] = sleeps[r] + (IF cpc[r] = "sleep" THEN 1 ELSE 0)
  /\ cpc[r] # "idle" =>
       IF retryCount[r] = 0 THEN backoffTime[r] = initialBackoff[r]
       ELSE \E jitter \in Jitters :
              backoffTime[r] = Backoff(initialBackoff[r], retryCount[r], jitter)
  /\ Completed(r) => result[r].retryCount = retryCount[r]
  /\ Failed(r) => result[r].retryAttempts = retryCount[r]

\* C23: two concurrent runs of a transfer do not touch each other: every step
\* changes the state of one run only, and the retry counter, the backoff and
\* the result of each run are those its own attempts and failures give, as
\* when it runs alone.
C23_RunsIndependent ==
  /\ [](\A r \in Runs : OwnProgress(r))
  /\ [][\A r, q \in Runs :
          q # r /\ RunState(r)' # RunState(r) => RunState(q)' = RunState(q)]_vars

\* one run waits for its second attempt while the other, called in the
\* meantime, is in its first attempt and has initiated its transfer
C23_Witness ==
  /\ cpc[1] = "sleep" /\ retryCount[1] = 1
  /\ cpc[2] = "attest" /\ retryCount[2] = 0 /\ Len(srcSubmitted[2]) = 1

-----------------------------------------------------------------------------
(* getSignerForChain applied to every platform, gas limit and process.env *)

SignerChains == {"Aptos", "Ethereum", "Solana", "Sui", "Osmosis"}
SignerGasLimits == {0, GasLimitValue}
SignerEnvironments == [Secrets -> {Undefined, EmptyText, SecretValue}]

\* await getSignerForChain(chain, gasLimit)
ResolveSigner ==
  /\ signerInfo = NotResolved
  /\ signerInfo' = GetSignerForChain(schain, sgasLimit, env)
  /\ UNCHANGED <<env, schain, sgasLimit, cMessage, cCount, cMax, cDecision,
                 chainContexts, cctpVars, wrapVars, transferVars, creditVars>>

NextSigner == ResolveSigner
InitSigner ==
  /\ env \in SignerEnvironments
  /\ schain \in SignerChains /\ sgasLimit \in SignerGasLimits
  /\ signerInfo = NotResolved
  /\ chainContexts = [k \in Networks \X ContextChains |-> 0]
  /\ cMessage = None /\ cCount = 0 /\ cMax = 0 /\ cDecision = ""
  /\ CctpInit /\ WrapInit /\ TransferInit /\ wrapped = EmptyRegistry
  /\ CreditsInit
SpecSigner == InitSigner /\ [][NextSigner]_vars

\* the platform families with a signer, and the secret of each
SignerFamilies == {"Solana", "Evm", "Sui", "Aptos"}
SecretOfFamily(platform) ==
  CASE platform = "Solana" -> SOLANA_PRIVATE_KEY
    [] platform = "Evm" -> ETH_PRIVATE_KEY
    [] platform = "Sui" -> SUI_MNEMONIC
    [] platform = "Aptos" -> APTOS_PRIVATE_KEY

-----------------------------------------------------------------------------
(* Claims about the order of the steps of createAptosWrappedToken *)

\* the call of p returned a success that reports a token it created
CreatedToken(p) ==
  WrapDone(p) /\ wres[p].isSuccess /\ "attestTxHash" \in DOMAIN wres[p]

\* C25: createAptosWrappedToken submits the registration to the destination
\* chain only after its attestation transaction on the origin chain was
\* confirmed, its message parsed and the VAA of that message obtained; and it
\* returns a success with a token it created only after a lookup on the
\* destination chain answered the address of the wrapped token.
C25_RegistrationAfterAttestation ==
  /\ [](\A p \in Procs :
          /\ registerTxs[p] > 0 => attestTxs[p] > 0 /\ primaryTxId[p] # 0
          /\ CreatedToken(p) =>
               /\ registerTxs[p] = 1
               /\ wrappedAsset[p] # NoAddr
               /\ wrappedAsset[p] = wrapped[WrapKey(wreq[p])]
               /\ wres[p].wrappedTokenInfo.tokenAddress = wrappedAsset[p]
               /\ wres[p].attestTxHash = primaryTxId[p])
  /\ [][\A p \in Procs :
          /\ registerTxs'[p] # registerTxs[p] =>
               /\ wpc[p] = "submitAttestation" /\ attestTxs[p] > 0
               /\ wrapped'[WrapKey(wreq[p])] # NoAddr
          /\ wpc'[p] = "submitAttestation" /\ wpc[p] # "submitAttestation" =>
               wpc[p] = "getVaa"
          /\ wpc'[p] = "getVaa" /\ wpc[p] # "getVaa" =>
               wpc[p] = "parseTransaction" /\ primaryTxId[p] # 0
          /\ wpc'[p] = "parseTransaction" /\ wpc[p] # "parseTransaction" =>
               wpc[p] = "createAttestation" /\ attestTxs'[p] = attestTxs[p] + 1]_vars

\* a call returned the token it created: it had submitted one attestation
\* transaction and one registration and then polled, one lookup having failed
C25_Witness ==
  \E p \in Procs :
    /\ CreatedToken(p) /\ attestTxs[p] = 1 /\ registerTxs[p] = 1
    /\ attemptCount[p] > 0

-----------------------------------------------------------------------------
(* Claims about the attestation wait of tokenTransfer *)

\* the run of p ended with the failure of the exhausted attestation poll
PollExhausted(p) ==
  /\ tpc[p] = "done" /\ ~tres[p].isSuccess
  /\ tres[p].errorMessage = MsgAttestationNotAvailable

\* C26: a run of tokenTransfer submits the initiation on the source chain at
\* most once: a failed wait for the attestation is followed by another wait
\* and never by an initiation, and a run whose attestation is still missing
\* after the polling attempts ends with a failure, having submitted its one
\* initiation and no completion.
C26_InitiatedOnce ==
  /\ [](\A p \in Procs :
          /\ Len(ttSubmitted[p]) <= 1
          /\ ttAttemptCount[p] > 0 => Len(ttSubmitted[p]) = 1
          /\ ttCompleted[p] > 0 => attestation[p] # None
          /\ PollExhausted(p) =>
               /\ Len(ttSubmitted[p]) = 1 /\ ttCompleted[p] = 0
               /\ attestation[p] = None /\ ttAttemptCount[p] = MaxAttempts)
  /\ [][\A p \in Procs :
          /\ ttAttemptCount'[p] # ttAttemptCount[p] =>
               /\ tpc'[p] = "pollSleep"
               /\ ttSubmitted'[p] = ttSubmitted[p] /\ ttCompleted'[p] = ttCompleted[p]
          /\ tpc[p] = "pollSleep" /\ tpc'[p] # "pollSleep" => tpc'[p] = "poll"
          /\ tpc[p] = "poll" => ttSubmitted'[p] = ttSubmitted[p]
          /\ tpc[p] = "poll" /\ tpc'[p] = "complete" => attestation[p] # None]_vars

\* a run initiated its transfer, waited for the attestation the ten times
\* and ended with the failure, nothing completed
C26_Witness ==
  \E p \in Procs :
    PollExhausted(p) /\ ttAttemptCount[p] = MaxAttempts /\ Len(ttSubmitted[p]) = 1

-----------------------------------------------------------------------------
(* Claims about checkWrappedTokenExists *)

\* C27: when checkWrappedTokenExists returns null, also after an error of the
\* lookup, the token is not wrapped on the destination chain; when the token
\* is wrapped it returns the address.
C27_NullMeansNotWrapped ==
  [][\A p \in Procs :
       wpc[p] = "check" /\ wpc'[p] # "check" =>
         /\ existingWrappedToken'[p] = NoAddr => wrapped[WrapKey(wreq[p])] = NoAddr
         /\ wrapped[WrapKey(wreq[p])] # NoAddr =>
              existingWrappedToken'[p] = wrapped[WrapKey(wreq[p])]]_vars

-----------------------------------------------------------------------------
(* The catch block of transferUsdcWithCctp applied to error messages *)

\* "server overloaded"
MsgServerOverloaded ==
  <<"s","e","r","v","e","r"," ","o","v","e","r","l","o","a","d","e","d">>
\* "request timeout"
MsgRequestTimeout ==
  <<"r","e","q","u","e","s","t"," ","t","i","m","e","o","u","t">>
\* "rate limit exceeded"
MsgRateLimitExceeded ==
  <<"r","a","t","e"," ","l","i","m","i","t"," ","e","x","c","e","e","d","e","d">>
\* "HTTP 429"
MsgHttp429 ==
  <<"H","T","T","P"," ","4","2","9">>
\* "connection refused"
MsgConnectionRefused ==
  <<"c","o","n","n","e","c","t","i","o","n"," ","r","e","f","u","s","e","d">>
\* "Rate Limit reached"
MsgRateLimitCapital ==
  <<"R","a","t","e"," ","L","i","m","i","t"," ","r","e","a","c","h","e","d">>
\* "ECONNRESET"
MsgConnReset ==
  <<"E","C","O","N","N","R","E","S","E","T">>

\* the messages of the errors caught: one for each signature, and others
CaughtMessages ==
  {MsgServiceOverloaded, MsgServerOverloaded, MsgRequestTimeout, MsgAttestTimeout,
   MsgRateLimitExceeded, MsgHttp429, MsgConnectionRefused,
   MsgReverted, MsgAttestTimedOut, MsgRateLimitCapital, MsgConnReset,
   MsgMissingEnvPrefix \o ETH_PRIVATE_KEY, EmptyText}

\* catch (error) { ... } with retryCount = cCount and maxRetries = cMax: the
\* function returns the failure or goes on to wait and retry
CatchError ==
  /\ cDecision = ""
  /\ cDecision' = IF StopRetrying(cCount, cMax, cMessage) THEN "return" ELSE "retry"
  /\ UNCHANGED <<env, schain, sgasLimit, signerInfo, cMessage, cCount, cMax,
                 chainContexts, cctpVars, wrapVars, transferVars, creditVars>>

NextCatch == CatchError
\* the catch block is entered inside while (retryCount <= maxRetries)
InitCatch ==
  /\ cMessage \in CaughtMessages
  /\ cMax \in 0..MaxRetriesArg /\ cCount \in 0..cMax
  /\ cDecision = ""
  /\ env = ProcessEnv(Secrets)
  /\ schain = SourceChainId /\ sgasLimit = 0 /\ signerInfo = NotResolved
  /\ chainContexts = [k \in Networks \X ContextChains |-> 0]
  /\ CctpInit /\ WrapInit /\ TransferInit /\ wrapped = EmptyRegistry
  /\ CreditsInit
SpecCatch == InitCatch /\ [][NextCatch]_vars

\* the signatures of a transient error
Signatures ==
  {SigRateLimit, Sig429, SigTimeout, SigConnection, SigOverloadedCap, SigOverloaded}
CarriesSignature(message) == \E sig \in Signatures : Includes(message, sig)

\* C28: an error caught by a stablecoin run is retried exactly when its
\* message contains "rate limit", "429", "timeout", "connection", "Overloaded"
\* or "overloaded" and attempts remain; an error with any other message is
\* fatal: the run returns the failure without retrying.
C28_TransientBySignature ==
  cDecision # "" =>
    /\ cDecision = "retry" <=> (CarriesSignature(cMessage) /\ cCount < cMax)
    /\ ~CarriesSignature(cMessage) => cDecision = "return"

\* an error whose message says "connection refused" was caught with an
\* attempt left, and the run went on to retry
C28_Witness ==
  /\ cMessage = MsgConnectionRefused /\ cCount < cMax
  /\ cDecision = "retry"

-----------------------------------------------------------------------------
(* Claims about the waits of the polling loops *)

\* C29: in the polling loops a lookup that did not yield the artifact is
\* followed by the wait of the polling interval before the next lookup, in
\* whatever way the lookup reported that the artifact is not yet available
\* (an error, or an empty value).
C29_WaitAfterEveryLookup ==
  [][\A p \in Procs :
       /\ (tpc[p] = "poll" /\ FetchAgain(attestation[p], ttAttemptCount[p])
             /\ attestation'[p] = None) => tpc'[p] = "pollSleep"
       /\ (wpc[p] = "poll" /\ PollAgain(wrappedAsset[p], attemptCount[p])
             /\ wrappedAsset'[p] = NoAddr) => wpc'[p] = "pollSleep"]_vars

-----------------------------------------------------------------------------
(* Claims about the provisioning step of tokenTransfer *)

\* the request of p names no token, or one of an unrecognised form
NativeAsset(p) == treq[p].tokenAddress.kind \in {"absent", "other"}

\* the key of the wrapped token tokenTransfer looks up for p
LookupKey(p) ==
  <<TransferNetwork(treq[p]), treq[p].targetChain, treq[p].tokenAddress.address>>

\* C30: tokenTransfer calls createAptosWrappedToken exactly when the asset is
\* not native and the lookup on the destination chain found no wrapped token:
\* a run of a non-native asset always makes the lookup, goes on without the
\* provisioner only when the token is wrapped, and calls the provisioner when
\* nothing is wrapped; a run of a native asset makes no lookup and no call.
C30_ProvisionerIffNeeded ==
  /\ [](\A p \in Procs :
          tpc[p] # "idle" /\ NativeAsset(p) =>
            /\ tpc[p] \notin {"checkWrapped", "createWrapped"}
            /\ wpc[p] = "idle" /\ attestTxs[p] = 0 /\ registerTxs[p] = 0)
  /\ [][\A p \in Procs :
          /\ tpc[p] = "destSigner" /\ tpc'[p] = "decimals" => NativeAsset(p)
          /\ tpc[p] = "destSigner" /\ tpc'[p] = "checkWrapped" => ~NativeAsset(p)
          /\ tpc[p] = "checkWrapped" /\ tpc'[p] # "checkWrapped" =>
               /\ tpc'[p] \in {"decimals", "createWrapped"}
               /\ tpc'[p] = "decimals" =>
                    wrapped[LookupKey(p)] # NoAddr /\ wpc'[p] = "idle"
               /\ tpc'[p] = "createWrapped" =>
                    /\ wpc'[p] = "wormhole"
                    /\ wreq'[p].originTokenAddress = treq[p].tokenAddress.address
               /\ wrapped[LookupKey(p)] = NoAddr => tpc'[p] = "createWrapped"
          /\ (tpc[p] # "idle" /\ wpc[p] = "idle" /\ wpc'[p] # "idle") =>
               tpc[p] = "checkWrapped"]_vars

\* the run of a token given by its address found nothing wrapped on the
\* destination chain and has called createAptosWrappedToken
C30_Witness ==
  \E p \in Procs :
    /\ tpc[p] = "createWrapped" /\ wpc[p] = "wormhole"
    /\ treq[p].tokenAddress.kind = "string"
    /\ wrapped[LookupKey(p)] = NoAddr

-----------------------------------------------------------------------------
(* Claims about the failures of createAptosWrappedToken *)

\* C31: when createAptosWrappedToken fails after it submitted the attestation
\* transaction on the origin chain, the failure it returns carries the
\* identifier of that transaction.
C31_FailureKeepsAttestationTx ==
  \A p \in Procs :
    (WrapDone(p) /\ ~wres[p].isSuccess /\ attestTxs[p] > 0) =>
      /\ "attestTxHash" \in DOMAIN wres[p]
      /\ wres[p].attestTxHash = primaryTxId[p]

-----------------------------------------------------------------------------
(* Claims about the network of tokenTransfer *)

\* C32: tokenTransfer looks up the wrapped token, creates it and transfers on
\* one network: the network of the createAptosWrappedToken it calls is the
\* network of its own Wormhole instance, also when the request names none.
C32_OneNetwork ==
  \A p \in Procs :
    Provisioning(p) => WrapNetwork(wreq[p]) = TransferNetwork(treq[p])

-----------------------------------------------------------------------------
(* Further claims about the retry loop of transferUsdcWithCctp *)

\* the retry count a returned result reports
ReportedRetries(res) == IF res.isSuccess THEN res.retryCount ELSE res.retryAttempts

\* C33: whatever maxRetries and initialBackoff are, a run that returned has
\* made at least one attempt, has waited as many times as the retry count it
\* reports, and has not returned the "Max retries reached" result that
\* follows the loop.
C33_AtLeastOneAttempt ==
  \A r \in Runs :
    Done(r) =>
      /\ attempts[r] >= 1
      /\ sleeps[r] = ReportedRetries(result[r])
      /\ ~(~result[r].isSuccess /\ result[r].errorMessage = MsgMaxRetriesReached)

\* the delay of retry n of run r with the given jitter (in hundredths):
\* min(initialBackoff * 2^n * jitter, 60 s)
DelayOf(r, n, jitter) ==
  Min((initialBackoff[r] * Pow(2, n) * jitter) \div 100, BackoffCap)

\* C34: in a run of transferUsdcWithCctp each backoff delay is a function of
\* the retry number, the initial delay and the jitter drawn for it, and not of
\* the delay before it; and whatever jitters are drawn between 0.85 and 1.15,
\* a delay is never shorter than the one before it.
C34_DelaysNonDecreasing ==
  [][\A r \in Runs :
       retryCount'[r] = retryCount[r] + 1 =>
         /\ \E jitter \in Jitters :
              backoffTime'[r] = DelayOf(r, retryCount'[r], jitter)
         /\ retryCount[r] >= 1 => backoffTime'[r] >= backoffTime[r]]_vars

\* a run waits for its third attempt, its second delay computed with the
\* smallest jitter and below the cap
C34_Witness ==
  \E r \in Runs :
    /\ cpc[r] = "sleep" /\ retryCount[r] = 2 /\ sleeps[r] = 1
    /\ backoffTime[r] = DelayOf(r, 2, 85) /\ backoffTime[r] < BackoffCap


-----------------------------------------------------------------------------
(* Buying OpenRouter credits: buyOpenRouterCredits *)

\* "OPENROUTER_API_KEY"
OPENROUTER_API_KEY ==
  <<"O","P","E","N","R","O","U","T","E","R","_","A","P","I","_","K","E","Y">>

\* the texts of the function: the messages of the errors it throws and the
\* texts its last catch block looks for (the amounts and the status code that
\* some messages carry are left out)
CreditsMsg ==
  \* "OPENROUTER_API_KEY is not set"
  [openRouterKeyNotSet |->
     <<"O","P","E","N","R","O","U","T","E","R","_","A","P","I","_","K","E",
       "Y"," ","i","s"," ","n","o","t"," ","s","e","t">>,
  \* "ETH_PRIVATE_KEY is not set for Base chain"
   ethKeyNotSet |->
     <<"E","T","H","_","P","R","I","V","A","T","E","_","K","E","Y"," ","i",
       "s"," ","n","o","t"," ","s","e","t"," ","f","o","r"," ","B","a","s",
       "e"," ","c","h","a","i","n">>,
  \* "Insufficient USDC balance on Aptos"
   insufficientAptos |->
     <<"I","n","s","u","f","f","i","c","i","e","n","t"," ","U","S","D","C",
       " ","b","a","l","a","n","c","e"," ","o","n"," ","A","p","t","o","s">>,
  \* "CCTP transfer failed: "
   cctpFailedPrefix |->
     <<"C","C","T","P"," ","t","r","a","n","s","f","e","r"," ","f","a","i",
       "l","e","d",":"," ">>,
  \* "Unknown error"
   unknownError |->
     <<"U","n","k","n","o","w","n"," ","e","r","r","o","r">>,
  \* "USDC transfer from Aptos to Base failed: "
   usdcTransferFailedPrefix |->
     <<"U","S","D","C"," ","t","r","a","n","s","f","e","r"," ","f","r","o",
       "m"," ","A","p","t","o","s"," ","t","o"," ","B","a","s","e"," ","f",
       "a","i","l","e","d",":"," ">>,
  \* "Invalid private key length"
   invalidKeyLength |->
     <<"I","n","v","a","l","i","d"," ","p","r","i","v","a","t","e"," ","k",
       "e","y"," ","l","e","n","g","t","h">>,
  \* "Private key contains invalid characters, expected hexadecimal format"
   invalidKeyChars |->
     <<"P","r","i","v","a","t","e"," ","k","e","y"," ","c","o","n","t","a",
       "i","n","s"," ","i","n","v","a","l","i","d"," ","c","h","a","r","a",
       "c","t","e","r","s",","," ","e","x","p","e","c","t","e","d"," ","h",
       "e","x","a","d","e","c","i","m","a","l"," ","f","o","r","m","a","t">>,
  \* "Failed to create Base wallet: "
   createWalletFailedPrefix |->
     <<"F","a","i","l","e","d"," ","t","o"," ","c","r","e","a","t","e"," ",
       "B","a","s","e"," ","w","a","l","l","e","t",":"," ">>,
  \* "Insufficient USDC balance on Base after transfer"
   insufficientBase |->
     <<"I","n","s","u","f","f","i","c","i","e","n","t"," ","U","S","D","C",
       " ","b","a","l","a","n","c","e"," ","o","n"," ","B","a","s","e"," ",
       "a","f","t","e","r"," ","t","r","a","n","s","f","e","r">>,
  \* "Failed to check USDC balance on Base: "
   balanceCheckFailedPrefix |->
     <<"F","a","i","l","e","d"," ","t","o"," ","c","h","e","c","k"," ","U",
       "S","D","C"," ","b","a","l","a","n","c","e"," ","o","n"," ","B","a",
       "s","e",":"," ">>,
  \* "OpenRouter API error: "
   openRouterApiErrorPrefix |->
     <<"O","p","e","n","R","o","u","t","e","r"," ","A","P","I"," ","e","r",
       "r","o","r",":"," ">>,
  \* "Invalid contract address from OpenRouter: "
   invalidContractPrefix |->
     <<"I","n","v","a","l","i","d"," ","c","o","n","t","r","a","c","t"," ",
       "a","d","d","r","e","s","s"," ","f","r","o","m"," ","O","p","e","n",
       "R","o","u","t","e","r",":"," ">>,
  \* "User rejected the request"
   sigUserRejected |->
     <<"U","s","e","r"," ","r","e","j","e","c","t","e","d"," ","t","h","e",
       " ","r","e","q","u","e","s","t">>,
  \* "Transaction was rejected by the wallet"
   rejectedByWallet |->
     <<"T","r","a","n","s","a","c","t","i","o","n"," ","w","a","s"," ","r",
       "e","j","e","c","t","e","d"," ","b","y"," ","t","h","e"," ","w","a",
       "l","l","e","t">>,
  \* "insufficient funds"
   sigInsufficientFunds |->
     <<"i","n","s","u","f","f","i","c","i","e","n","t"," ","f","u","n","d",
       "s">>,
  \* "Insufficient ETH for gas fees on Base chain"
   insufficientEth |->
     <<"I","n","s","u","f","f","i","c","i","e","n","t"," ","E","T","H"," ",
       "f","o","r"," ","g","a","s"," ","f","e","e","s"," ","o","n"," ","B",
       "a","s","e"," ","c","h","a","i","n">>,
  \* "Failed to purchase OpenRouter credits: "
   purchaseFailedPrefix |->
     <<"F","a","i","l","e","d"," ","t","o"," ","p","u","r","c","h","a","s",
       "e"," ","O","p","e","n","R","o","u","t","e","r"," ","c","r","e","d",
       "i","t","s",":"," ">>]

\* formattedKey.length !== 66
KeyLength == 66

\* process.env as buyOpenRouterCredits is explored with it: the two secrets it
\* reads unset, empty or set; the Base key also as a key of 64 hexadecimal
\* digits after "0x", as such a key without the prefix, between blanks, with
\* characters that are no digits, and as a blank
CreditEnvironments ==
  LET HexKey == <<"0","x">> \o [i \in 1..(KeyLength - 2) |-> "a"]
      BareKey == [i \in 1..(KeyLength - 2) |-> "b"]
      PaddedKey == <<" ">> \o HexKey \o <<" ">>
      NonHexKey == <<"0","x">> \o [i \in 1..(KeyLength - 2) |-> "g"]
      Blank == <<" ">>
  IN {[name \in Secrets \cup {OPENROUTER_API_KEY} |->
         IF name = OPENROUTER_API_KEY THEN api
         ELSE IF name = ETH_PRIVATE_KEY THEN key
         ELSE SecretValue] :
        api \in {Undefined, EmptyText, SecretValue},
        key \in {Undefined, EmptyText, SecretValue, HexKey, BareKey, PaddedKey,
                 NonHexKey, Blank}}

\* the requests: amountUsd in whole dollars, networkType ("" when omitted)
CreditRequests == [amountUsd : {1, 2}, networkType : NetworkTypes]
\* what agent.getBalance answers for the USDC of Aptos; 0 also stands for an
\* answer of undefined, which the code treats alike (!aptosUsdcBalance)
AptosBalances == {0, 1, 2}
\* what agent.transferUsdcWithCctp answers: the results transferUsdcWithCctp
\* returns, a failure with and without a message
CctpAnswers ==
  {[isSuccess |-> TRUE, status |-> "Completed"],
   FailureResult(MsgReverted, 0), FailureResult(None, 0)}
\* balanceOf of the Base wallet, in base units of USDC
BaseBalances == {0, HardCodedAmt - 1, HardCodedAmt, 2 * HardCodedAmt}
\* metadata.contract_address of the transfer intent (empty: absent)
ContractAddresses == {<<"0","x","c">>, <<"c">>, EmptyText}
\* the errors of the remote calls, and the texts of an error response
\* "fetch failed" and "ECONNRESET"
NetworkErrors == {<<"f","e","t","c","h"," ","f","a","i","l","e","d">>, MsgConnReset}
\* "insufficient funds for gas"
InsufficientFundsForGas ==
  <<"i","n","s","u","f","f","i","c","i","e","n","t"," ","f","u","n","d","s",
    " ","f","o","r"," ","g","a","s">>
\* the errors of sendTransaction: "User rejected the request.", insufficient
\* funds and a revert
WalletErrors ==
  {<<"U","s","e","r"," ","r","e","j","e","c","t","e","d"," ","t","h","e"," ",
     "r","e","q","u","e","s","t",".">>,
   InsufficientFundsForGas, MsgReverted}
ErrorTexts == {InsufficientFundsForGas, EmptyText}
ReceiptStatuses == {"success", "reverted"}

\* !process.env[name]
NotSet(name, environment) ==
  environment[name] = Undefined \/ environment[name] = EmptyText

\* formatPrivateKey: trim, prefix with 0x, test the length and the digits
FormatPrivateKey(privateKey) ==
  LET HexDigits ==
        {"0","1","2","3","4","5","6","7","8","9","a","b","c","d","e","f",
         "A","B","C","D","E","F"}
      Whitespace == {" "}
      kept == {i \in 1..Len(privateKey) : privateKey[i] \notin Whitespace}
      first == CHOOSE i \in kept : \A j \in kept : i <= j
      last == CHOOSE i \in kept : \A j \in kept : i >= j
      trimmed == IF kept = {} THEN <<>> ELSE SubSeq(privateKey, first, last)
      formattedKey ==
        IF Len(trimmed) >= 2 /\ SubSeq(trimmed, 1, 2) = <<"0","x">>
        THEN trimmed ELSE <<"0","x">> \o trimmed
  IN IF Len(formattedKey) # KeyLength
     THEN [ok |-> FALSE, message |-> CreditsMsg.invalidKeyLength]
     ELSE IF \E i \in 3..KeyLength : formattedKey[i] \notin HexDigits
     THEN [ok |-> FALSE, message |-> CreditsMsg.invalidKeyChars]
     ELSE [ok |-> TRUE, key |-> formattedKey]

\* !aptosUsdcBalance || aptosUsdcBalance < amountUsd
InsufficientOnAptos(balance, amountUsd) == balance = 0 \/ balance < amountUsd

\* formatUnits(value, decimals) with decimals = places: the whole part and the fraction of the decimal
FormatUnits(value, places) ==
  [whole |-> value \div Pow(10, places), fraction |-> value % Pow(10, places)]

\* mutant: the balance on Base is not compared with the amount
InsufficientOnBase_Never(parsedUnits, amountUsd) == FALSE

\* Number(parsedUnits) < amountUsd, amountUsd a whole number
InsufficientOnBase(parsedUnits, amountUsd) == parsedUnits.whole < amountUsd

\* !metadata.contract_address || !metadata.contract_address.startsWith('0x')
InvalidContractAddress(address) ==
  address = EmptyText \/ Len(address) < 2 \/ SubSeq(address, 1, 2) # <<"0","x">>

\* the catch block of the purchase: the message of the error it throws
PurchaseError(message) ==
  IF Includes(message, CreditsMsg.sigUserRejected) THEN CreditsMsg.rejectedByWallet
  ELSE IF Includes(message, CreditsMsg.sigInsufficientFunds) THEN CreditsMsg.insufficientEth
  ELSE CreditsMsg.purchaseFailedPrefix \o message

outsideCredits == <<env, helperVars, chainContexts, cctpVars, wrapVars, transferVars>>

\* throw new Error(message) out of buyOpenRouterCredits
Throw(message) ==
  /\ bpc' = "thrown"
  /\ bout' = [thrown |-> TRUE, message |-> message]

\* buyOpenRouterCredits(agent, request): the two secrets are tested on entry
BuyCall ==
  /\ bpc = "idle"
  /\ \E req \in CreditRequests :
       /\ breq' = req
       /\ IF NotSet(OPENROUTER_API_KEY, env) THEN Throw(CreditsMsg.openRouterKeyNotSet)
          ELSE IF NotSet(ETH_PRIVATE_KEY, env) THEN Throw(CreditsMsg.ethKeyNotSet)
          ELSE bpc' = "getBalance" /\ UNCHANGED bout
  /\ UNCHANGED <<aptosUsdcBalance, cctpResult, usdcBalance, approvalReceipt, receipt,
                 baseReads, intentRequests, approvalsSent, transfersSent,
                 outsideCredits>>

\* await agent.getBalance(...) and the test of the balance
CreditsGetBalance ==
  /\ bpc = "getBalance"
  /\ \/ \E balance \in AptosBalances :
          /\ aptosUsdcBalance' = balance
          /\ IF InsufficientOnAptos(balance, breq.amountUsd)
             THEN Throw(CreditsMsg.usdcTransferFailedPrefix \o CreditsMsg.insufficientAptos)
             ELSE bpc' = "cctp" /\ UNCHANGED bout
     \/ \E message \in NetworkErrors :
          /\ Throw(CreditsMsg.usdcTransferFailedPrefix \o message)
          /\ UNCHANGED aptosUsdcBalance
  /\ UNCHANGED <<breq, cctpResult, usdcBalance, approvalReceipt, receipt,
                 baseReads, intentRequests, approvalsSent, transfersSent,
                 outsideCredits>>

\* await agent.transferUsdcWithCctp("Base", ...), the test of its result, and
\* the creation of the Base account from the formatted key
CreditsCctpTransfer ==
  /\ bpc = "cctp"
  /\ \/ \E res \in CctpAnswers :
          /\ cctpResult' = res
          /\ IF ~res.isSuccess
             THEN Throw(CreditsMsg.usdcTransferFailedPrefix \o CreditsMsg.cctpFailedPrefix \o
                        (IF res.errorMessage = None THEN CreditsMsg.unknownError
                         ELSE res.errorMessage))
             ELSE LET formatted == FormatPrivateKey(env[ETH_PRIVATE_KEY])
                  IN IF ~formatted.ok
                     THEN Throw(CreditsMsg.createWalletFailedPrefix \o formatted.message)
                     ELSE bpc' = "readBalance" /\ UNCHANGED bout
     \/ \E message \in NetworkErrors :
          /\ Throw(CreditsMsg.usdcTransferFailedPrefix \o message)
          /\ UNCHANGED cctpResult
  /\ UNCHANGED <<breq, aptosUsdcBalance, usdcBalance, approvalReceipt, receipt,
                 baseReads, intentRequests, approvalsSent, transfersSent,
                 outsideCredits>>

\* the wait for the finalization (15 s, then 30 s), await readContract
\* (balanceOf) and the test of the balance; a second read after a first that
\* showed too little
CreditsReadBalance ==
  /\ bpc \in {"readBalance", "readAgain"}
  /\ \/ \E balance \in BaseBalances :
          /\ usdcBalance' = balance
          /\ baseReads' = Append(baseReads, balance)
          /\ IF ~InsufficientOnBase(FormatUnits(balance, UsdcDecimals), breq.amountUsd)
             THEN bpc' = "fetch" /\ UNCHANGED bout
             ELSE IF bpc = "readBalance"
             THEN bpc' = "readAgain" /\ UNCHANGED bout
             ELSE Throw(CreditsMsg.balanceCheckFailedPrefix \o CreditsMsg.insufficientBase)
     \/ \E message \in NetworkErrors :
          /\ Throw(CreditsMsg.balanceCheckFailedPrefix \o message)
          /\ UNCHANGED <<usdcBalance, baseReads>>
  /\ UNCHANGED <<breq, aptosUsdcBalance, cctpResult, approvalReceipt, receipt,
                 intentRequests, approvalsSent, transfersSent, outsideCredits>>

\* await fetch('https://openrouter.ai/api/v1/credits/coinbase', POST)
CreditsFetchIntent ==
  /\ bpc = "fetch"
  /\ intentRequests' = intentRequests + 1
  /\ \/ bpc' \in {"json", "text"} /\ UNCHANGED bout
     \/ \E message \in NetworkErrors : Throw(PurchaseError(message))
  /\ UNCHANGED <<breq, aptosUsdcBalance, cctpResult, usdcBalance, approvalReceipt,
                 receipt, baseReads, approvalsSent, transfersSent, outsideCredits>>

\* if (!response.ok): await response.text() and the error thrown with it
CreditsErrorText ==
  /\ bpc = "text"
  /\ \E message \in NetworkErrors \cup
                    {CreditsMsg.openRouterApiErrorPrefix \o text : text \in ErrorTexts} :
       Throw(PurchaseError(message))
  /\ UNCHANGED <<breq, aptosUsdcBalance, cctpResult, usdcBalance, approvalReceipt,
                 receipt, baseReads, intentRequests, approvalsSent, transfersSent,
                 outsideCredits>>

\* await response.json(), the reading of the intent and the test of its
\* contract address
CreditsReadJson ==
  /\ bpc = "json"
  /\ \/ \E address \in ContractAddresses :
          IF InvalidContractAddress(address)
          THEN Throw(PurchaseError(CreditsMsg.invalidContractPrefix \o address))
          ELSE bpc' = "approve" /\ UNCHANGED bout
     \/ \E message \in NetworkErrors : Throw(PurchaseError(message))
  /\ UNCHANGED <<breq, aptosUsdcBalance, cctpResult, usdcBalance, approvalReceipt,
                 receipt, baseReads, intentRequests, approvalsSent, transfersSent,
                 outsideCredits>>

\* const approval = await walletClient.sendTransaction({ to: USDC_ADDRESS, ... })
CreditsSendApproval ==
  /\ bpc = "approve"
  /\ \/ /\ approvalsSent' = approvalsSent + 1
        /\ bpc' = "approvalReceipt" /\ UNCHANGED bout
     \/ \E message \in WalletErrors :
          Throw(PurchaseError(message)) /\ UNCHANGED approvalsSent
  /\ UNCHANGED <<breq, aptosUsdcBalance, cctpResult, usdcBalance, approvalReceipt,
                 receipt, baseReads, intentRequests, transfersSent, outsideCredits>>

\* const approvalReceipt = await publicClient.waitForTransactionReceipt(...):
\* a receipt of a transaction that succeeded or reverted, or no receipt
CreditsApprovalReceipt ==
  /\ bpc = "approvalReceipt"
  /\ \/ \E status \in ReceiptStatuses :
          /\ approvalReceipt' = status
          /\ bpc' = "transfer" /\ UNCHANGED bout
     \/ \E message \in NetworkErrors :
          Throw(PurchaseError(message)) /\ UNCHANGED approvalReceipt
  /\ UNCHANGED <<breq, aptosUsdcBalance, cctpResult, usdcBalance, receipt,
                 baseReads, intentRequests, approvalsSent, transfersSent,
                 outsideCredits>>

\* the delay of 3 s and
\* const transfer = await walletClient.sendTransaction({ to: contract_address, ... })
CreditsSendTransfer ==
  /\ bpc = "transfer"
  /\ \/ /\ transfersSent' = transfersSent + 1
        /\ bpc' = "transferReceipt" /\ UNCHANGED bout
     \/ \E message \in WalletErrors :
          Throw(PurchaseError(message)) /\ UNCHANGED transfersSent
  /\ UNCHANGED <<breq, aptosUsdcBalance, cctpResult, usdcBalance, approvalReceipt,
                 receipt, baseReads, intentRequests, approvalsSent, outsideCredits>>

\* const receipt = await publicClient.waitForTransactionReceipt(...) and the
\* return of the JSON text
CreditsTransferReceipt ==
  /\ bpc = "transferReceipt"
  /\ \/ \E status \in ReceiptStatuses :
          /\ receipt' = status
          /\ bpc' = "done"
          /\ bout' = [thrown |-> FALSE, isSuccess |-> TRUE,
                      amountUsd |-> breq.amountUsd]
     \/ \E message \in NetworkErrors :
          Throw(PurchaseError(message)) /\ UNCHANGED receipt
  /\ UNCHANGED <<breq, aptosUsdcBalance, cctpResult, usdcBalance, approvalReceipt,
                 baseReads, intentRequests, approvalsSent, transfersSent,
                 outsideCredits>>

\* one run of buyOpenRouterCredits
NextCredits ==
  \/ BuyCall
  \/ CreditsGetBalance
  \/ CreditsCctpTransfer
  \/ CreditsReadBalance
  \/ CreditsFetchIntent
  \/ CreditsErrorText
  \/ CreditsReadJson
  \/ CreditsSendApproval
  \/ CreditsApprovalReceipt
  \/ CreditsSendTransfer
  \/ CreditsTransferReceipt
InitCredits ==
  /\ env \in CreditEnvironments
  /\ HelperInit /\ CctpInit /\ WrapInit /\ TransferInit /\ wrapped = EmptyRegistry
SpecCredits == InitCredits /\ [][NextCredits]_vars


-----------------------------------------------------------------------------
(* Claims about buyOpenRouterCredits *)

\* the run has sent a payment request to OpenRouter or a transaction on Base
SentSomething == intentRequests > 0 \/ approvalsSent > 0 \/ transfersSent > 0

\* both secrets set, the balance on Aptos covering the amount, a successful
\* CCTP transfer, and a read on Base that showed at least the amount
PurchaseAllowed ==
  /\ env[OPENROUTER_API_KEY] \notin {Undefined, EmptyText}
  /\ env[ETH_PRIVATE_KEY] \notin {Undefined, EmptyText}
  /\ aptosUsdcBalance >= breq.amountUsd
  /\ cctpResult.isSuccess
  /\ \E i \in 1..Len(baseReads) :
       baseReads[i] >= breq.amountUsd * Pow(10, UsdcDecimals)

\* C35: buyOpenRouterCredits sends a payment request to OpenRouter or a
\* transaction on Base only when both secrets are set, the USDC balance on
\* Aptos covered amountUsd, the CCTP transfer returned success and one of at
\* most two reads of the balance on Base showed at least amountUsd; a run that
\* ends without all of this has thrown.
C35_PurchaseGated ==
  /\ Len(baseReads) <= 2
  /\ SentSomething => PurchaseAllowed
  /\ (bpc \in {"done", "thrown"} /\ ~PurchaseAllowed) =>
       (bpc = "thrown" /\ bout.thrown)

\* the payment was sent after a first read on Base that showed too little and
\* a second that showed enough
C35_Witness ==
  /\ transfersSent = 1 /\ approvalsSent = 1 /\ intentRequests = 1
  /\ Len(baseReads) = 2
  /\ baseReads[1] < breq.amountUsd * Pow(10, UsdcDecimals)

\* C36: the payment transaction (transferTokenPreApproved) is sent only after
\* the approval transaction was sent and its receipt showed success; it is not
\* sent when the approval was not sent, not confirmed or reverted.
C36_PaymentAfterApproval ==
  transfersSent > 0 => (approvalsSent > 0 /\ approvalReceipt = "success")

=============================================================================
